---- MODULE Spec2Model ----
(***************************************************************************)
(* Verification model of the RBAC core of go-react-blog:                   *)
(*   - matchAPIPath / CheckPermission  (server/internal/service/permission.go) *)
(*   - RBACAuth                        (server/internal/middleware/rbac_auth.go) *)
(*   - BuildPermissionTree             (server/internal/service/permission.go) *)
(*   - the administrative writes that change what CheckPermission reads    *)
(*   - the category path and article-count triggers (deploy/pg.sql).       *)
(*                                                                         *)
(* Five specifications share the module:                                   *)
(*   SpecMatch  matchAPIPath applied to bounded descriptor/request inputs  *)
(*   SpecTree   BuildPermissionTree run step by step on bounded inputs     *)
(*   Spec       the store, the admin writes and the guarded request chain  *)
(*   SpecAdmin  the permission administration calls and GetPermissionTree  *)
(*   SpecCat    cms_categories / cms_article_categories and their triggers *)
(* A Go string is a sequence of one-character strings, so that splitting,  *)
(* upper-casing, prefix and suffix tests are computed, not assumed.        *)
(***************************************************************************)
EXTENDS Integers, Sequences, FiniteSets, TLC

VARIABLES
    \* ---- matchAPIPath call (SpecMatch)
    mArgs,      \* [permPath, requestPath, requestMethod] of the call
    mpc,        \* "call" before matchAPIPath returns, "ret" after
    mRet,       \* the returned bool (FALSE until the call returns)
    \* ---- BuildPermissionTree run (SpecTree)
    permissions,  \* the input slice: sequence of [PermID, ParentID]
    permMap,      \* PermID -> the copy of the row stored under that key
    pending,      \* keys of permMap the second loop has not ranged over yet
    rootNodes,    \* the returned slice, as a sequence of PermIDs
    Children,     \* PermID -> sequence of PermIDs (the Children slices)
    tpc,          \* "map" | "link" | "done"
    \* ---- the store (Spec)
    sys_permissions,        \* perm_id -> row; SERIAL ids, so a sequence of rows
    sys_roles,              \* role_id -> row
    sys_role_permissions,   \* set of <<role_id, perm_id>>
    ops,                    \* administrative calls made so far
    \* ---- the request in flight (Spec)
    rpc,            \* "idle" | "rbac" | "check" | "chain" | "done"
    req,            \* what the call reads: context keys, role_ids, path, method
    res,            \* what the RBAC check did: status, aborted, decision, queries
    handlerRan,     \* the target handler of the route ran for this request
    \* ---- the permission administration call (SpecAdmin)
    call,           \* the last call: its name, its arguments, whether it failed
    \* ---- categories (SpecCat)
    cms_categories,           \* category_id -> row; SERIAL ids, a sequence of rows
    cms_article_categories,   \* set of <<article_id, category_id>>
    cops,                     \* statements executed so far
    stmt,           \* the last statement: its kind, its arguments, whether it failed
    \* ---- requests served at the same time (SpecReparent, SpecLike)
    sessions,       \* request -> its arguments, what it read, where it stands
    \* ---- users and their tokens (SpecToken)
    sys_user_roles, \* set of <<user_id, role_id>>
    tokens,         \* token -> the claims it was signed with, whether it expired
    \* ---- articles, their comments and likes (SpecComment, SpecLike)
    cms_articles,       \* article_id -> row (the counters)
    cms_comments,       \* comment_id -> row; BIGSERIAL ids, a sequence of rows
    cms_article_likes   \* the like rows, as <<article_id, user_id>> with their number

matchVars == <<mArgs, mpc, mRet>>
treeVars  == <<permissions, permMap, pending, rootNodes, Children, tpc>>
storeVars == <<sys_permissions, sys_roles, sys_role_permissions>>
reqVars   == <<rpc, req, res, handlerRan>>
rbacVars  == <<storeVars, ops, reqVars>>
adminVars == <<call>>
catVars   == <<cms_categories, cms_article_categories, cops, stmt>>
userVars  == <<sys_user_roles, tokens>>
articleVars == <<cms_articles, cms_comments, cms_article_likes>>
siteVars  == <<sessions, userVars, articleVars>>
vars      == <<matchVars, treeVars, rbacVars, adminVars, catVars, siteVars>>

\* What the actions of one specification leave alone.
notMatchVars == <<treeVars, rbacVars, adminVars, catVars, siteVars>>
notTreeVars  == <<matchVars, rbacVars, adminVars, catVars, siteVars>>
notRbacVars  == <<matchVars, treeVars, adminVars, catVars, siteVars>>
notCatVars   == <<matchVars, treeVars, rbacVars, adminVars, siteVars>>

----------------------------------------------------------------------------
(* Strings *)

\* All strings over alphabet A of length at most n.
StringsUpTo(A, n) == UNION {[1..k -> A] : k \in 0..n}

\* strings.ToUpper on the ASCII letters the model uses.
ToUpperChar(c) ==
    CASE c = "g" -> "G"
      [] c = "e" -> "E"
      [] c = "t" -> "T"
      [] c = "p" -> "P"
      [] c = "u" -> "U"
      [] OTHER   -> c

ToUpper(s) == [i \in 1..Len(s) |-> ToUpperChar(s[i])]

\* strings.HasPrefix(s, prefix)
HasPrefix(s, prefix) ==
    /\ Len(s) >= Len(prefix)
    /\ SubSeq(s, 1, Len(prefix)) = prefix

\* strings.HasSuffix(s, suffix)
HasSuffix(s, suffix) ==
    /\ Len(s) >= Len(suffix)
    /\ SubSeq(s, Len(s) - Len(suffix) + 1, Len(s)) = suffix

\* Index of the first occurrence of character c in s, 0 when there is none.
IndexOf(s, c) ==
    IF \E i \in 1..Len(s) : s[i] = c
    THEN CHOOSE i \in 1..Len(s) : s[i] = c /\ \A j \in 1..(i-1) : s[j] # c
    ELSE 0

\* strings.SplitN(s, sep, 2) for a one-character separator: one part when the
\* separator does not occur, otherwise the text before the first occurrence and
\* everything after it.
SplitN2(s, sep) ==
    LET i == IndexOf(s, sep) IN
    IF i = 0 THEN <<s>>
    ELSE <<SubSeq(s, 1, i - 1), SubSeq(s, i + 1, Len(s))>>

----------------------------------------------------------------------------
(* matchAPIPath, permission.go:52-77 *)

matchAPIPath_noSuffixStrip(permPath, requestPath, requestMethod) ==
    LET parts == SplitN2(permPath, ":") IN
    IF Len(parts) # 2 THEN FALSE
    ELSE
      LET permMethod == ToUpper(parts[1])
          permPathPattern == parts[2]
      IN
      IF permMethod # <<"*">> /\ permMethod # ToUpper(requestMethod) THEN FALSE
      ELSE IF HasSuffix(permPathPattern, <<"/", "*">>)
           THEN HasPrefix(requestPath, permPathPattern)
           ELSE permPathPattern = requestPath

matchAPIPath_exactAsPrefix(permPath, requestPath, requestMethod) ==
    LET parts == SplitN2(permPath, ":") IN
    IF Len(parts) # 2 THEN FALSE
    ELSE
      LET permMethod == ToUpper(parts[1])
          permPathPattern == parts[2]
      IN
      IF permMethod # <<"*">> /\ permMethod # ToUpper(requestMethod) THEN FALSE
      ELSE IF HasSuffix(permPathPattern, <<"/", "*">>)
           THEN HasPrefix(requestPath,
                          SubSeq(permPathPattern, 1, Len(permPathPattern) - 2))
           ELSE HasPrefix(requestPath, permPathPattern)

matchAPIPath_caseSensitive(permPath, requestPath, requestMethod) ==
    LET parts == SplitN2(permPath, ":") IN
    IF Len(parts) # 2 THEN FALSE
    ELSE
      LET permMethod == parts[1]
          permPathPattern == parts[2]
      IN
      IF permMethod # <<"*">> /\ permMethod # requestMethod THEN FALSE
      ELSE IF HasSuffix(permPathPattern, <<"/", "*">>)
           THEN LET prefix == SubSeq(permPathPattern, 1, Len(permPathPattern) - 2)
                IN HasPrefix(requestPath, prefix)
           ELSE permPathPattern = requestPath

matchAPIPath_bareDescriptor(permPath, requestPath, requestMethod) ==
    LET parts == SplitN2(permPath, ":") IN
    IF Len(parts) # 2
    THEN IF HasSuffix(permPath, <<"/", "*">>)
         THEN HasPrefix(requestPath, SubSeq(permPath, 1, Len(permPath) - 2))
         ELSE permPath = requestPath
    ELSE
      LET permMethod == ToUpper(parts[1])
          permPathPattern == parts[2]
      IN
      IF permMethod # <<"*">> /\ permMethod # ToUpper(requestMethod) THEN FALSE
      ELSE IF HasSuffix(permPathPattern, <<"/", "*">>)
           THEN LET prefix == SubSeq(permPathPattern, 1, Len(permPathPattern) - 2)
                IN HasPrefix(requestPath, prefix)
           ELSE permPathPattern = requestPath

matchAPIPath(permPath, requestPath, requestMethod) ==
    LET parts == SplitN2(permPath, ":") IN
    IF Len(parts) # 2 THEN FALSE
    ELSE
      LET permMethod == ToUpper(parts[1])
          permPathPattern == parts[2]
      IN
      IF permMethod # <<"*">> /\ permMethod # ToUpper(requestMethod) THEN FALSE
      ELSE IF HasSuffix(permPathPattern, <<"/", "*">>)
           THEN LET prefix == SubSeq(permPathPattern, 1, Len(permPathPattern) - 2)
                IN HasPrefix(requestPath, prefix)
           ELSE permPathPattern = requestPath

----------------------------------------------------------------------------
(* Inputs of the matchAPIPath specification *)

MaxLen == 3     \* longest free-form descriptor
MaxPat == 3     \* longest enumerated path pattern / request path

GET    == <<"G", "E", "T">>
POST   == <<"P", "O", "S", "T">>
DELETE == <<"D", "E", "L", "E", "T", "E">>

ApiV1         == <<"/", "a", "p", "i", "/", "v", "1">>
UsersPath     == ApiV1 \o <<"/", "u", "s", "e", "r", "s">>       \* /api/v1/users
Users42Path   == UsersPath \o <<"/", "4", "2">>                   \* /api/v1/users/42
Users1Path    == UsersPath \o <<"/", "1">>                        \* /api/v1/users/1
Users5Path    == UsersPath \o <<"/", "5">>                        \* /api/v1/users/5
Articles5Path == ApiV1 \o <<"/", "a", "r", "t", "i", "c", "l", "e", "s", "/", "5">>

GetUsersWild  == GET \o <<":">> \o UsersPath \o <<"/", "*">>      \* GET:/api/v1/users/*
GetUsersExact == GET \o <<":">> \o UsersPath                      \* GET:/api/v1/users
AnyArticles   == <<"*", ":">> \o ApiV1
                   \o <<"/", "a", "r", "t", "i", "c", "l", "e", "s", "/", "*">>

DescChars == {"g", "G", ":", "/", "*", "u"}
PathChars == {"/", "u", "*"}

PermMethods == {<<"G">>, <<"g">>, <<"*">>, GET}
Patterns    == StringsUpTo(PathChars, MaxPat)

Descriptors ==
    StringsUpTo(DescChars, MaxLen)
      \cup {m \o <<":">> \o p : m \in PermMethods, p \in Patterns}
      \cup {GetUsersWild, GetUsersExact, AnyArticles}

RequestPaths ==
    StringsUpTo(PathChars, MaxPat)
      \cup {UsersPath, Users42Path, Users1Path, Articles5Path}

RequestMethods == {<<"G">>, <<"g">>, <<"p">>, GET, POST}

MatchInit ==
    /\ mArgs \in [permPath : Descriptors,
                  requestPath : RequestPaths,
                  requestMethod : RequestMethods]
    /\ mpc = "call"
    /\ mRet = FALSE

\* The call returns.
MatchCall ==
    /\ mpc = "call"
    /\ mpc' = "ret"
    /\ mRet' = matchAPIPath(mArgs.permPath, mArgs.requestPath, mArgs.requestMethod)
    /\ UNCHANGED <<mArgs, notMatchVars>>

\* Lets the RBAC and tree specifications leave the call state untouched.
MatchIdleInit ==
    /\ mArgs = [permPath |-> <<>>, requestPath |-> <<>>, requestMethod |-> <<>>]
    /\ mpc = "ret"
    /\ mRet = FALSE

----------------------------------------------------------------------------
(* BuildPermissionTree, permission.go:112-138 *)
(* A *int is the empty set (nil) or the singleton of the value pointed to.    *)

MaxTreeID == 3      \* permission IDs of the input slice are 1..MaxTreeID

TreeIDs == 1..MaxTreeID

\* parent_id values of an input row: NULL, 0, the ID of a possible row, or an
\* ID (99) that no row of the input has.
ParentIDs == {{}, {0}, {99}} \cup {{i} : i \in TreeIDs}

\* Input slices: rows of distinct perm_id (the primary key), in any order.
PermissionSlices ==
    {ps \in UNION {[1..n -> [PermID : TreeIDs, ParentID : ParentIDs]] : n \in 0..MaxTreeID} :
        \A i, j \in 1..Len(ps) : i # j => ps[i].PermID # ps[j].PermID}

TreeInit ==
    /\ permissions \in PermissionSlices
    /\ permMap = <<>>
    /\ pending = {}
    /\ rootNodes = <<>>
    /\ Children = <<>>
    /\ tpc = "map"

\* First loop (lines 114-118): permMap[perm.PermID] = &perm for a fresh copy of
\* every element, a later element replacing an earlier one of the same ID.
BuildMap ==
    /\ tpc = "map"
    /\ LET ids == {permissions[i].PermID : i \in 1..Len(permissions)}
           last(id) == CHOOSE i \in 1..Len(permissions) :
                          /\ permissions[i].PermID = id
                          /\ \A j \in 1..Len(permissions) :
                                permissions[j].PermID = id => j <= i
       IN /\ permMap' = [id \in ids |-> permissions[last(id)]]
          /\ pending' = ids
          /\ Children' = [id \in ids |-> <<>>]
    /\ tpc' = "link"
    /\ UNCHANGED <<permissions, rootNodes, notTreeVars>>

\* One iteration of the second loop (lines 122-135) for the map entry k: what
\* rootNodes and the Children slices are afterwards.
LinkEntry_promoteOrphan(k) ==
    LET perm == permMap[k] IN
    IF perm.ParentID = {} \/ perm.ParentID = {0}
    THEN [rootNodes |-> Append(rootNodes, k), Children |-> Children]
    ELSE LET parent == CHOOSE x \in perm.ParentID : TRUE IN
         IF parent \in DOMAIN permMap
         THEN [rootNodes |-> rootNodes,
               Children |-> [Children EXCEPT ![parent] = Append(@, k)]]
         ELSE [rootNodes |-> Append(rootNodes, k), Children |-> Children]

LinkEntry_rootAndChild(k) ==
    LET perm == permMap[k] IN
    IF perm.ParentID = {} \/ perm.ParentID = {0}
    THEN [rootNodes |-> Append(rootNodes, k), Children |-> Children]
    ELSE LET parent == CHOOSE x \in perm.ParentID : TRUE IN
         IF parent \in DOMAIN permMap
         THEN [rootNodes |-> Append(rootNodes, k),
               Children |-> [Children EXCEPT ![parent] = Append(@, k)]]
         ELSE [rootNodes |-> rootNodes, Children |-> Children]

LinkEntry_selfLoopIsRoot(k) ==
    LET perm == permMap[k] IN
    IF perm.ParentID = {} \/ perm.ParentID = {0} \/ perm.ParentID = {k}
    THEN [rootNodes |-> Append(rootNodes, k), Children |-> Children]
    ELSE LET parent == CHOOSE x \in perm.ParentID : TRUE IN
         IF parent \in DOMAIN permMap
         THEN [rootNodes |-> rootNodes,
               Children |-> [Children EXCEPT ![parent] = Append(@, k)]]
         ELSE [rootNodes |-> rootNodes, Children |-> Children]

LinkEntry(k) ==
    LET perm == permMap[k] IN
    IF perm.ParentID = {} \/ perm.ParentID = {0}
    THEN [rootNodes |-> Append(rootNodes, k), Children |-> Children]
    ELSE LET parent == CHOOSE x \in perm.ParentID : TRUE IN
         IF parent \in DOMAIN permMap
         THEN [rootNodes |-> rootNodes,
               Children |-> [Children EXCEPT ![parent] = Append(@, k)]]
         ELSE [rootNodes |-> rootNodes, Children |-> Children]

\* The second loop ranges over permMap: Go leaves the iteration order of a map
\* unspecified, so the next entry is any entry not visited yet.
LinkNode ==
    /\ tpc = "link"
    /\ \E k \in pending :
          /\ rootNodes' = LinkEntry(k).rootNodes
          /\ Children' = LinkEntry(k).Children
          /\ pending' = pending \ {k}
    /\ UNCHANGED <<permissions, permMap, tpc, notTreeVars>>

\* return rootNodes (line 137)
TreeReturn ==
    /\ tpc = "link"
    /\ pending = {}
    /\ tpc' = "done"
    /\ UNCHANGED <<permissions, permMap, pending, rootNodes, Children, notTreeVars>>

(* GetCategoryTree, unnamed/part_012:235-268 *)

\* One iteration of the second loop (lines 253-265) for the element category of
\* the slice: tree is the root list and the Children slices built so far, ids
\* the keys of categoryMap.
LinkCategory_promoteOrphan(tree, category, ids) ==
    IF category.ParentID = {} \/ category.ParentID = {0}
    THEN [rootNodes |-> Append(tree.rootNodes, category.CategoryID),
          Children |-> tree.Children]
    ELSE LET parent == CHOOSE x \in category.ParentID : TRUE IN
         IF parent \in ids
         THEN [rootNodes |-> tree.rootNodes,
               Children |-> [tree.Children EXCEPT
                                ![parent] = Append(@, category.CategoryID)]]
         ELSE [rootNodes |-> Append(tree.rootNodes, category.CategoryID),
               Children |-> tree.Children]

LinkCategory(tree, category, ids) ==
    IF category.ParentID = {} \/ category.ParentID = {0}
    THEN [rootNodes |-> Append(tree.rootNodes, category.CategoryID),
          Children |-> tree.Children]
    ELSE LET parent == CHOOSE x \in category.ParentID : TRUE IN
         IF parent \in ids
         THEN [rootNodes |-> tree.rootNodes,
               Children |-> [tree.Children EXCEPT
                                ![parent] = Append(@, category.CategoryID)]]
         ELSE tree

\* The second loop ranges over the slice, so the elements are linked in the
\* order of the query result.
RECURSIVE LinkCategories(_, _, _, _)
LinkCategories(tree, categories, i, ids) ==
    IF i > Len(categories) THEN tree
    ELSE LinkCategories(LinkCategory(tree, categories[i], ids), categories, i + 1, ids)

\* The first loop (lines 244-251) gives every category_id a node with an empty
\* Children slice; the result is the root list with the Children slices.
GetCategoryTree(categories) ==
    LET ids == {categories[i].CategoryID : i \in 1..Len(categories)}
    IN LinkCategories([rootNodes |-> <<>>, Children |-> [id \in ids |-> <<>>]],
                      categories, 1, ids)

\* Lets the other specifications leave the tree state untouched.
TreeIdleInit ==
    /\ permissions = <<>>
    /\ permMap = <<>>
    /\ pending = {}
    /\ rootNodes = <<>>
    /\ Children = <<>>
    /\ tpc = "done"

----------------------------------------------------------------------------
(* The store: sys_permissions, sys_roles, sys_role_permissions (pg.sql:166-266) *)

MaxPermID == 2      \* CreatePermission inserts perm_id 1..MaxPermID
MaxRoleID == 3      \* roles 1..MaxRoleID exist; role 1 is the seeded super admin
MaxOps    == 3      \* administrative calls in one behaviour

PermIDs == 1..MaxPermID
RoleIDs == 1..MaxRoleID

\* perm_type: 1 menu, 3 API endpoint (pg.sql:205); 2 (button) is treated by
\* CheckPermission exactly as 1.
PermTypes == {1, 3}

\* api_path values written by the administrative forms.
APIPaths == {<<>>, GetUsersWild, AnyArticles}

\* Requests that reach the guarded route group.
Requests ==
    { [path |-> Users42Path,   method |-> GET],
      [path |-> Users42Path,   method |-> POST],
      [path |-> Articles5Path, method |-> DELETE] }

NoResult ==
    [status |-> 0, aborted |-> FALSE, decision |-> "none", queries |-> 0,
     queryErr |-> FALSE]

NoRequest ==
    [entry |-> "RBACAuth", hasUser |-> FALSE, hasRoles |-> FALSE, roleIDs |-> {},
     path |-> <<>>, method |-> <<>>]

\* pg.sql:194-198 seeds the roles, all enabled; no permission is seeded.
StoreInit ==
    /\ sys_permissions = <<>>
    /\ sys_roles = [r \in RoleIDs |-> [IsEnabled |-> TRUE]]
    /\ sys_role_permissions = {}
    /\ ops = 0

RequestInit ==
    /\ rpc = "idle"
    /\ req = NoRequest
    /\ res = NoResult
    /\ handlerRan = FALSE

RbacInit == StoreInit /\ RequestInit

\* Lets the other specifications leave the store and the request untouched.
RbacIdleInit == StoreInit /\ RequestInit

\* No administration call has been made.
NoCall ==
    [op |-> "none", permID |-> 0, parentID |-> {}, roleID |-> 0, permIDs |-> <<>>,
     err |-> FALSE]

AdminIdleInit == call = NoCall

\* api_path values without a ":" (the form's own example, "/api/v1/users", is
\* one): the path of a request, and a wildcard pattern.
UsersWildBare == UsersPath \o <<"/", "*">>                        \* /api/v1/users/*
CheckPaths == {Users42Path, UsersWildBare, GetUsersWild, AnyArticles}

\* Stores for CheckPermission applied on its own (SpecCheck): up to MaxPermID
\* enabled rows whose api_path has or lacks the ":", linked to role 2 or not.
\* Every such store is one CreatePermission, UpdatePermission and
\* AssignPermissions build.
CheckInit ==
    /\ sys_permissions \in
          UNION {[1..n -> [PermType : PermTypes, ParentID : {{}},
                           APIPath : CheckPaths, IsEnabled : {TRUE}]]
                   : n \in 0..MaxPermID}
    /\ sys_roles = [r \in RoleIDs |-> [IsEnabled |-> TRUE]]
    /\ sys_role_permissions \in SUBSET ({2} \X DOMAIN sys_permissions)
    /\ ops = 0
    /\ RequestInit

----------------------------------------------------------------------------
(* CheckPermission, permission.go:11-49 *)

\* The rows the query of lines 21-26 returns: sys_permissions joined to
\* sys_role_permissions, role_id IN roleIDs, is_enabled = true.
CandidatePermissions_ignoreEnabled(roleIDs) ==
    {p \in DOMAIN sys_permissions :
        \E r \in roleIDs : <<r, p>> \in sys_role_permissions}

CandidatePermissions(roleIDs) ==
    {p \in DOMAIN sys_permissions :
        /\ \E r \in roleIDs : <<r, p>> \in sys_role_permissions
        /\ sys_permissions[p].IsEnabled}

\* Result: ok/err are the returned (bool, error), queries the storage queries
\* issued.  dbFails: the query of lines 21-26 ends with result.Error set.
CheckPermission_noBypass(roleIDs, requestPath, requestMethod, dbFails) ==
    IF dbFails THEN [ok |-> FALSE, err |-> TRUE, queries |-> 1]
    ELSE [ok |-> \E p \in CandidatePermissions(roleIDs) :
                    /\ sys_permissions[p].PermType = 3
                    /\ sys_permissions[p].APIPath # <<>>
                    /\ matchAPIPath(sys_permissions[p].APIPath, requestPath, requestMethod),
          err |-> FALSE, queries |-> 1]

CheckPermission_anyType(roleIDs, requestPath, requestMethod, dbFails) ==
    IF 1 \in roleIDs THEN [ok |-> TRUE, err |-> FALSE, queries |-> 0]
    ELSE IF dbFails THEN [ok |-> FALSE, err |-> TRUE, queries |-> 1]
    ELSE [ok |-> \E p \in CandidatePermissions(roleIDs) :
                    /\ sys_permissions[p].APIPath # <<>>
                    /\ matchAPIPath(sys_permissions[p].APIPath, requestPath, requestMethod),
          err |-> FALSE, queries |-> 1]

CheckPermission_errAsDeny(roleIDs, requestPath, requestMethod, dbFails) ==
    IF 1 \in roleIDs THEN [ok |-> TRUE, err |-> FALSE, queries |-> 0]
    ELSE IF dbFails THEN [ok |-> FALSE, err |-> FALSE, queries |-> 1]
    ELSE [ok |-> \E p \in CandidatePermissions(roleIDs) :
                    /\ sys_permissions[p].PermType = 3
                    /\ sys_permissions[p].APIPath # <<>>
                    /\ matchAPIPath(sys_permissions[p].APIPath, requestPath, requestMethod),
          err |-> FALSE, queries |-> 1]

CheckPermission(roleIDs, requestPath, requestMethod, dbFails) ==
    IF 1 \in roleIDs THEN [ok |-> TRUE, err |-> FALSE, queries |-> 0]
    ELSE IF dbFails THEN [ok |-> FALSE, err |-> TRUE, queries |-> 1]
    ELSE [ok |-> \E p \in CandidatePermissions(roleIDs) :
                    /\ sys_permissions[p].PermType = 3
                    /\ sys_permissions[p].APIPath # <<>>
                    /\ matchAPIPath(sys_permissions[p].APIPath, requestPath, requestMethod),
          err |-> FALSE, queries |-> 1]

----------------------------------------------------------------------------
(* RBACAuth, rbac_auth.go:11-66, on the chain of router.go:94-106 *)

\* What the middleware leaves behind for the request in req: the status it
\* wrote (0: none), whether it called c.Abort(), its decision and the queries
\* CheckPermission issued.
RBACAuthResult_noAbortOnDeny(dbFails) ==
    IF ~req.hasUser
    THEN [NoResult EXCEPT !.status = 401, !.aborted = TRUE]
    ELSE IF ~req.hasRoles
    THEN [NoResult EXCEPT !.status = 403, !.aborted = TRUE]
    ELSE IF 1 \in req.roleIDs
    THEN [NoResult EXCEPT !.decision = "allow"]
    ELSE LET r == CheckPermission(req.roleIDs, req.path, req.method, dbFails) IN
         IF r.err
         THEN [NoResult EXCEPT !.status = 500, !.aborted = TRUE,
                               !.decision = "error", !.queries = r.queries]
         ELSE IF ~r.ok
         THEN [NoResult EXCEPT !.status = 403,
                               !.decision = "deny", !.queries = r.queries]
         ELSE [NoResult EXCEPT !.decision = "allow", !.queries = r.queries]

RBACAuthResult(dbFails) ==
    IF ~req.hasUser
    THEN [NoResult EXCEPT !.status = 401, !.aborted = TRUE]
    ELSE IF ~req.hasRoles
    THEN [NoResult EXCEPT !.status = 403, !.aborted = TRUE]
    ELSE IF 1 \in req.roleIDs
    THEN [NoResult EXCEPT !.decision = "allow"]
    ELSE LET r == CheckPermission(req.roleIDs, req.path, req.method, dbFails) IN
         IF r.err
         THEN [NoResult EXCEPT !.status = 500, !.aborted = TRUE,
                               !.decision = "error", !.queries = r.queries]
         ELSE IF ~r.ok
         THEN [NoResult EXCEPT !.status = 403, !.aborted = TRUE,
                               !.decision = "deny", !.queries = r.queries]
         ELSE [NoResult EXCEPT !.decision = "allow", !.queries = r.queries]

\* The gin contexts RBACAuth is entered with.  JWTAuth (unnamed/part_016, lines
\* 72-74) sets user_id and role_ids from the token's claims; contexts lacking a
\* key are included so that the middleware's own guards (lines 14-32) are run.
Contexts ==
    {c \in [entry : {"RBACAuth"}, hasUser : BOOLEAN, hasRoles : BOOLEAN,
            roleIDs : SUBSET RoleIDs,
            path : {q.path : q \in Requests}, method : {q.method : q \in Requests}] :
        /\ [path |-> c.path, method |-> c.method] \in Requests
        /\ ~c.hasRoles => c.roleIDs = {}
        /\ ~c.hasUser => c.roleIDs \in {{}, {1}}}

\* Arguments of a direct call of the exported CheckPermission.
DirectCalls ==
    {c \in [entry : {"CheckPermission"}, hasUser : {TRUE}, hasRoles : {TRUE},
            roleIDs : SUBSET RoleIDs,
            path : {q.path : q \in Requests}, method : {q.method : q \in Requests}] :
        [path |-> c.path, method |-> c.method] \in Requests}

\* A request arrives at the guarded group, or a caller is about to call
\* CheckPermission.
NewRequest ==
    /\ rpc = "idle"
    /\ \E c \in Contexts \cup DirectCalls :
          /\ req' = c
          /\ rpc' = IF c.entry = "RBACAuth" THEN "rbac" ELSE "check"
    /\ res' = NoResult
    /\ handlerRan' = FALSE
    /\ UNCHANGED <<storeVars, ops, notRbacVars>>

\* The middleware runs (one call of the handler function of lines 12-65).
RBACAuth ==
    /\ rpc = "rbac"
    /\ \E dbFails \in BOOLEAN :
          LET out == RBACAuthResult(dbFails) IN
          res' = [out EXCEPT !.queryErr = (dbFails /\ out.queries > 0)]
    /\ rpc' = "chain"
    /\ UNCHANGED <<storeVars, ops, req, handlerRan, notRbacVars>>

\* gin runs the next handler of the chain unless the context was aborted.
Handler ==
    /\ rpc = "chain"
    /\ ~res.aborted
    /\ handlerRan' = TRUE
    /\ res' = [res EXCEPT !.status = IF @ = 0 THEN 200 ELSE @]
    /\ rpc' = "done"
    /\ UNCHANGED <<storeVars, ops, req, notRbacVars>>

\* An aborted chain ends with the response the middleware wrote.
ChainAborted ==
    /\ rpc = "chain"
    /\ res.aborted
    /\ rpc' = "done"
    /\ UNCHANGED <<storeVars, ops, req, res, handlerRan, notRbacVars>>

\* CheckPermission called directly returns to its caller.
CheckPermissionCall ==
    /\ rpc = "check"
    /\ \E dbFails \in BOOLEAN :
          LET r == CheckPermission(req.roleIDs, req.path, req.method, dbFails) IN
          res' = [NoResult EXCEPT
                    !.decision = IF r.err THEN "error"
                                 ELSE IF r.ok THEN "allow" ELSE "deny",
                    !.queries = r.queries,
                    !.queryErr = (dbFails /\ r.queries > 0)]
    /\ rpc' = "done"
    /\ UNCHANGED <<storeVars, ops, req, handlerRan, notRbacVars>>

\* The response is out and the context released.
Finish ==
    /\ rpc = "done"
    /\ rpc' = "idle"
    /\ req' = NoRequest
    /\ res' = NoResult
    /\ handlerRan' = FALSE
    /\ UNCHANGED <<storeVars, ops, notRbacVars>>

----------------------------------------------------------------------------
(* Administrative writes *)

\* An administrative call ends with the store as given.  The RBAC check reads
\* the store in one query and writes nothing, so a write concurrent with a
\* request takes effect either before or after that query: the writes are
\* taken between requests.
AdminReady == rpc = "idle" /\ ops < MaxOps

AdminWrites(perms, roles, links) ==
    /\ ops' = ops + 1
    /\ sys_permissions' = perms
    /\ sys_roles' = roles
    /\ sys_role_permissions' = links
    /\ UNCHANGED <<reqVars, notRbacVars>>

AdminFails == AdminWrites(sys_permissions, sys_roles, sys_role_permissions)

\* gorm's Create writes the column default for a zero-valued field that
\* declares one (IsEnabled: `default:true`, model/config.go:281).
GormCreateBool(value, default) == IF value = FALSE THEN default ELSE value

\* A nil pointer of an update form is {}, a set pointer {value}.
Deref(ptr) == CHOOSE v \in ptr : TRUE
Patch(old, ptr) == IF ptr = {} THEN old ELSE Deref(ptr)

\* parent_id of a permission form (a *int): nil, 0, or an ID the serial hands
\* out at some point, so an ID that may or may not name a row at the time of
\* the call.  sys_permissions declares no foreign key on parent_id
\* (pg.sql:200-217).
PermParents == {{}, {0}} \cup {{p} : p \in PermIDs}

CreateForms(parents) ==
    [PermType : PermTypes, APIPath : APIPaths, IsEnabled : BOOLEAN, ParentID : parents]

UpdateForms(parents) ==
    [PermType : {{}} \cup {{t} : t \in PermTypes},
     APIPath : {{}} \cup {{a} : a \in APIPaths},
     IsEnabled : {{}, {TRUE}, {FALSE}},
     ParentID : parents]

\* CreatePermission, permission_service.go:11-65: whether it returns an error
\* and the table afterwards.  perm_name and perm_key of the form are unused
\* ones (a clash only rejects the call).
CreatePermissionTx(form) ==
    IF /\ form.PermType = 3
       /\ form.APIPath # <<>>
       /\ \E p \in DOMAIN sys_permissions : sys_permissions[p].APIPath = form.APIPath
    THEN [err |-> TRUE, perms |-> sys_permissions]
    ELSE [err |-> FALSE,
          perms |-> Append(sys_permissions,
                           [PermType |-> form.PermType,
                            ParentID |-> form.ParentID,
                            APIPath |-> form.APIPath,
                            IsEnabled |-> GormCreateBool(form.IsEnabled, TRUE)])]

\* UpdatePermission, permission_service.go:68-172: whether it returns an error
\* and the table afterwards.
UpdatePermissionTx(permID, form) ==
    IF permID \notin DOMAIN sys_permissions
    THEN [err |-> TRUE, perms |-> sys_permissions]
    ELSE IF /\ form.PermType = {3}
            /\ form.APIPath # {}
            /\ form.APIPath # {<<>>}
            /\ form.APIPath # {sys_permissions[permID].APIPath}
            /\ \E p \in DOMAIN sys_permissions :
                  p # permID /\ {sys_permissions[p].APIPath} = form.APIPath
    THEN [err |-> TRUE, perms |-> sys_permissions]
    ELSE [err |-> FALSE,
          perms |-> [sys_permissions EXCEPT ![permID] =
                        [PermType |-> Patch(@.PermType, form.PermType),
                         ParentID |-> IF form.ParentID = {} THEN @.ParentID
                                      ELSE form.ParentID,
                         APIPath |-> Patch(@.APIPath, form.APIPath),
                         IsEnabled |-> Patch(@.IsEnabled, form.IsEnabled)]]]

\* UpdatePermissionStatus, permission_service.go:325-341.
UpdatePermissionStatusTx(permID, isEnabled) ==
    IF permID \notin DOMAIN sys_permissions
    THEN [err |-> TRUE, perms |-> sys_permissions]
    ELSE [err |-> FALSE,
          perms |-> [sys_permissions EXCEPT ![permID].IsEnabled = isEnabled]]

\* AssignPermissions, unnamed/part_010:248-285: inside one transaction the
\* role's rows are deleted and one row per element of permIDs inserted; an
\* insert that breaks the primary key (role_id, perm_id) or the foreign key to
\* sys_permissions (pg.sql:262-265) rolls the transaction back.
AssignPermissionsTx(roleID, permIDs) ==
    IF roleID \notin DOMAIN sys_roles
    THEN [err |-> TRUE, links |-> sys_role_permissions]
    ELSE IF \/ \E i \in 1..Len(permIDs) : permIDs[i] \notin DOMAIN sys_permissions
            \/ \E i, j \in 1..Len(permIDs) : i # j /\ permIDs[i] = permIDs[j]
    THEN [err |-> TRUE, links |-> sys_role_permissions]
    ELSE [err |-> FALSE,
          links |-> {l \in sys_role_permissions : l[1] # roleID}
                      \cup {<<roleID, permIDs[i]>> : i \in 1..Len(permIDs)}]

\* The role and permission arguments of AssignPermissions.
AssignRoleIDs == 1..(MaxRoleID + 1)
AssignPermIDs == UNION {[1..n -> PermIDs] : n \in 0..MaxPermID}

\* The calls as the guarded routes make them (Spec): the forms leave parent_id
\* nil, which CheckPermission never reads.
CreatePermission ==
    /\ AdminReady
    /\ \E form \in CreateForms({{}}) :
       LET tx == CreatePermissionTx(form) IN
       /\ tx.err \/ Len(sys_permissions) < MaxPermID
       /\ AdminWrites(tx.perms, sys_roles, sys_role_permissions)

UpdatePermission ==
    /\ AdminReady
    /\ \E permID \in PermIDs, form \in UpdateForms({{}}) :
       AdminWrites(UpdatePermissionTx(permID, form).perms, sys_roles,
                   sys_role_permissions)

UpdatePermissionStatus ==
    /\ AdminReady
    /\ \E permID \in PermIDs, isEnabled \in BOOLEAN :
       AdminWrites(UpdatePermissionStatusTx(permID, isEnabled).perms, sys_roles,
                   sys_role_permissions)

\* UpdateRoleStatus, unnamed/part_010:300-316 (role service).
UpdateRoleStatus ==
    /\ AdminReady
    /\ \E roleID \in 1..(MaxRoleID + 1), isEnabled \in BOOLEAN :
       IF roleID \notin DOMAIN sys_roles
       THEN AdminFails
       ELSE AdminWrites(sys_permissions,
                        [sys_roles EXCEPT ![roleID].IsEnabled = isEnabled],
                        sys_role_permissions)

AssignPermissions ==
    /\ AdminReady
    /\ \E roleID \in AssignRoleIDs, permIDs \in AssignPermIDs :
       AdminWrites(sys_permissions, sys_roles,
                   AssignPermissionsTx(roleID, permIDs).links)

----------------------------------------------------------------------------
(* The permission administration calls with every parent_id a form can carry, *)
(* and GetPermissionTree (SpecAdmin).  BuildPermissionTree works on the slice *)
(* GetPermissionTree fetched, so the calls are taken between two tree builds. *)

AdminCallReady == tpc = "done" /\ ops < MaxOps

\* The forms of the menu administration: menu entries (perm_type 1, no
\* api_path), enabled or not, under any parent_id.
MenuCreateForms ==
    {form \in CreateForms(PermParents) : form.PermType = 1 /\ form.APIPath = <<>>}

MenuUpdateForms ==
    {form \in UpdateForms(PermParents) : form.PermType = {} /\ form.APIPath = {}}

AdminReturns(perms, roles, links, c) ==
    /\ ops' = ops + 1
    /\ sys_permissions' = perms
    /\ sys_roles' = roles
    /\ sys_role_permissions' = links
    /\ call' = c
    /\ UNCHANGED <<reqVars, matchVars, treeVars, catVars, siteVars>>

AdminCreatePermission ==
    /\ AdminCallReady
    /\ \E form \in MenuCreateForms :
       LET tx == CreatePermissionTx(form) IN
       /\ tx.err \/ Len(sys_permissions) < MaxPermID
       /\ AdminReturns(tx.perms, sys_roles, sys_role_permissions,
                       [NoCall EXCEPT !.op = "CreatePermission",
                                      !.parentID = form.ParentID,
                                      !.err = tx.err])

AdminUpdatePermission ==
    /\ AdminCallReady
    /\ \E permID \in PermIDs, form \in MenuUpdateForms :
       LET tx == UpdatePermissionTx(permID, form) IN
       AdminReturns(tx.perms, sys_roles, sys_role_permissions,
                    [NoCall EXCEPT !.op = "UpdatePermission",
                                   !.permID = permID,
                                   !.parentID = form.ParentID,
                                   !.err = tx.err])

AdminUpdatePermissionStatus ==
    /\ AdminCallReady
    /\ \E permID \in PermIDs, isEnabled \in BOOLEAN :
       LET tx == UpdatePermissionStatusTx(permID, isEnabled) IN
       AdminReturns(tx.perms, sys_roles, sys_role_permissions,
                    [NoCall EXCEPT !.op = "UpdatePermissionStatus",
                                   !.permID = permID,
                                   !.err = tx.err])

AdminAssignPermissions ==
    /\ AdminCallReady
    /\ \E roleID \in AssignRoleIDs, permIDs \in AssignPermIDs :
       LET tx == AssignPermissionsTx(roleID, permIDs) IN
       AdminReturns(sys_permissions, sys_roles, tx.links,
                    [NoCall EXCEPT !.op = "AssignPermissions",
                                   !.roleID = roleID,
                                   !.permIDs = permIDs,
                                   !.err = tx.err])

\* GetPermissionTree, permission_service.go:315-322: Find() fetches every row
\* of sys_permissions, ordered (the rows carry the same sort order, so by
\* perm_id), and hands the slice to BuildPermissionTree; a failed query
\* returns the error and builds nothing.
GetPermissionTree ==
    /\ tpc = "done"
    /\ \E dbFails \in BOOLEAN :
       IF dbFails
       THEN /\ call' = [NoCall EXCEPT !.op = "GetPermissionTree", !.err = TRUE]
            /\ permissions' = <<>>
            /\ tpc' = "done"
       ELSE /\ call' = [NoCall EXCEPT !.op = "GetPermissionTree"]
            /\ permissions' =
                  [i \in DOMAIN sys_permissions |->
                      [PermID |-> i,
                       ParentID |-> sys_permissions[i].ParentID,
                       IsEnabled |-> sys_permissions[i].IsEnabled]]
            /\ tpc' = "map"
    /\ permMap' = <<>>
    /\ pending' = {}
    /\ rootNodes' = <<>>
    /\ Children' = <<>>
    /\ UNCHANGED <<matchVars, rbacVars, catVars, siteVars>>

----------------------------------------------------------------------------
(* Categories: cms_categories and cms_article_categories (pg.sql:274-292,    *)
(* 446-454), the triggers trg_category_path and trg_category_article_count   *)
(* (pg.sql:725-732), and the category service (unnamed/part_012).            *)
(* An ltree path is the sequence of its labels, each label a category_id.    *)

MaxCategoryID == 3      \* CreateCategory inserts category_id 1..MaxCategoryID
MaxArticleID  == 2      \* articles 1..MaxArticleID exist
MaxCatOps     == 5      \* statements in one behaviour

CategoryIDs == 1..MaxCategoryID
ArticleIDs  == 1..MaxArticleID

\* parent_id of a form (a *int): nil, 0, or the ID of a possible category.
CategoryParents == {{}, {0}} \cup {{c} : c \in CategoryIDs}

NoStatement == [op |-> "none", id |-> 0, article |-> 0, parent |-> {}, err |-> FALSE]

\* The schema creates both tables empty; article_count defaults to 0.
CatInit ==
    /\ cms_categories = <<>>
    /\ cms_article_categories = {}
    /\ cops = 0
    /\ stmt = NoStatement

\* Lets the other specifications leave the category tables untouched.
CatIdleInit ==
    /\ cms_categories = <<>>
    /\ cms_article_categories = {}
    /\ cops = 0
    /\ stmt = NoStatement

\* Lets the other specifications leave the users, the articles and the
\* requests served at the same time untouched.
SiteIdleInit ==
    /\ sessions = <<>>
    /\ sys_user_roles = {}
    /\ tokens = <<>>
    /\ cms_articles = <<>>
    /\ cms_comments = <<>>
    /\ cms_article_likes = {}

\* update_category_path(), pg.sql:651-669, for the row NEW with the given
\* category_id and parent_id: whether it raises, and row.path otherwise.  The
\* trigger is BEFORE ROW, so it reads the table as it is before the write.
update_category_path_parentIdOnly(category_id, parent_id) ==
    IF parent_id = {}
    THEN [raise |-> FALSE, path |-> <<category_id>>]
    ELSE LET parent == CHOOSE x \in parent_id : TRUE IN
         IF parent \notin DOMAIN cms_categories
         THEN [raise |-> TRUE, path |-> <<>>]
         ELSE [raise |-> FALSE, path |-> <<parent, category_id>>]

update_category_path(category_id, parent_id) ==
    IF parent_id = {}
    THEN [raise |-> FALSE, path |-> <<category_id>>]
    ELSE LET parent == CHOOSE x \in parent_id : TRUE IN
         IF parent \notin DOMAIN cms_categories
         THEN [raise |-> TRUE, path |-> <<>>]
         ELSE [raise |-> FALSE,
               path |-> cms_categories[parent].Path \o <<category_id>>]

\* update_category_article_count(), pg.sql:672-685: the categories after the
\* AFTER ROW trigger ran for one inserted or deleted association row.
update_category_article_count_insertOnly(TG_OP, category_id) ==
    IF category_id \notin DOMAIN cms_categories
    THEN cms_categories
    ELSE IF TG_OP = "INSERT"
    THEN [cms_categories EXCEPT ![category_id].ArticleCount = @ + 1]
    ELSE cms_categories

update_category_article_count(TG_OP, category_id) ==
    IF category_id \notin DOMAIN cms_categories
    THEN cms_categories
    ELSE IF TG_OP = "INSERT"
    THEN [cms_categories EXCEPT ![category_id].ArticleCount = @ + 1]
    ELSE IF TG_OP = "DELETE"
    THEN [cms_categories EXCEPT ![category_id].ArticleCount =
             IF @ - 1 > 0 THEN @ - 1 ELSE 0]
    ELSE cms_categories

CatReady == cops < MaxCatOps

\* One statement ends with the tables as given.
CatWrites(categories, links, s) ==
    /\ cops' = cops + 1
    /\ cms_categories' = categories
    /\ cms_article_categories' = links
    /\ stmt' = s
    /\ UNCHANGED notCatVars

\* CreateCategory, unnamed/part_012:11-46: the INSERT fires trg_category_path
\* (BEFORE INSERT); category_name and category_key of the form are unused ones.
\* The serial hands out the IDs in order.
CreateCategory ==
    /\ CatReady
    /\ \E ParentID \in CategoryParents :
       LET id   == Len(cms_categories) + 1
           row  == update_category_path(id, ParentID)
           done == [op |-> "insert", id |-> id, article |-> 0, parent |-> ParentID,
                    err |-> row.raise]
       IN IF row.raise
          THEN CatWrites(cms_categories, cms_article_categories, done)
          ELSE /\ id <= MaxCategoryID
               /\ CatWrites(Append(cms_categories,
                                   [ParentID |-> ParentID, Path |-> row.path,
                                    ArticleCount |-> 0]),
                            cms_article_categories, done)

\* UpdateCategory, unnamed/part_012:49-114: parent_id is in the SET list only
\* when form.ParentID is not nil, and trg_category_path (BEFORE UPDATE OF
\* parent_id) fires only then, for the updated row alone.
UpdateCategory ==
    /\ CatReady
    /\ \E categoryID \in CategoryIDs, ParentID \in CategoryParents :
       LET row  == update_category_path(categoryID, ParentID)
           done(e) == [op |-> "update", id |-> categoryID, article |-> 0,
                       parent |-> ParentID, err |-> e]
       IN IF categoryID \notin DOMAIN cms_categories
          THEN CatWrites(cms_categories, cms_article_categories, done(TRUE))
          ELSE IF ParentID = {}
          THEN CatWrites(cms_categories, cms_article_categories, done(FALSE))
          ELSE IF row.raise
          THEN CatWrites(cms_categories, cms_article_categories, done(TRUE))
          ELSE CatWrites([cms_categories EXCEPT ![categoryID] =
                             [@ EXCEPT !.ParentID = ParentID, !.Path = row.path]],
                         cms_article_categories, done(FALSE))

\* INSERT INTO cms_article_categories: rejected by the primary key
\* (article_id, category_id) or the foreign key to cms_categories
\* (pg.sql:451-453); otherwise trg_category_article_count fires (AFTER INSERT).
InsertArticleCategory ==
    /\ CatReady
    /\ \E article_id \in ArticleIDs, category_id \in CategoryIDs :
       LET done(e) == [op |-> "link", id |-> category_id, article |-> article_id,
                       parent |-> {}, err |-> e]
       IN IF \/ <<article_id, category_id>> \in cms_article_categories
             \/ category_id \notin DOMAIN cms_categories
          THEN CatWrites(cms_categories, cms_article_categories, done(TRUE))
          ELSE CatWrites(update_category_article_count("INSERT", category_id),
                         cms_article_categories \cup {<<article_id, category_id>>},
                         done(FALSE))

\* DELETE FROM cms_article_categories for one key: trg_category_article_count
\* fires (AFTER DELETE) for the row deleted, if there is one.
DeleteArticleCategory ==
    /\ CatReady
    /\ \E article_id \in ArticleIDs, category_id \in CategoryIDs :
       LET done == [op |-> "unlink", id |-> category_id, article |-> article_id,
                    parent |-> {}, err |-> FALSE]
       IN IF <<article_id, category_id>> \notin cms_article_categories
          THEN CatWrites(cms_categories, cms_article_categories, done)
          ELSE CatWrites(update_category_article_count("DELETE", category_id),
                         cms_article_categories \ {<<article_id, category_id>>},
                         done)

----------------------------------------------------------------------------
(* UpdateCategory calls served at the same time (SpecReparent): every call is *)
(* a goroutine of the HTTP server; its statements run outside a transaction, *)
(* each one an autocommitted statement of the READ COMMITTED database.        *)

\* The two calls in flight at the same time.
Sessions == {1, 2}

NoRow == [ParentID |-> {}, Path |-> <<>>, ArticleCount |-> 0]

IdleSession ==
    [pc |-> "idle", categoryID |-> 0, ParentID |-> {}, category |-> NoRow,
     err |-> FALSE]

\* The path trg_category_path gave category i when it was created under
\* parent[i], a category created before it.
RECURSIVE CreatedPath(_, _)
CreatedPath(parent, i) ==
    IF parent[i] = {} THEN <<i>>
    ELSE CreatedPath(parent, CHOOSE p \in parent[i] : TRUE) \o <<i>>

\* The tables CreateCategory builds: category i is a root or the child of a
\* category of a smaller ID.
CreatedCategories ==
    UNION {{[i \in 1..n |-> [ParentID |-> parent[i], Path |-> CreatedPath(parent, i),
                             ArticleCount |-> 0]]
              : parent \in {f \in [1..n -> {{}} \cup {{p} : p \in 1..n}] :
                              \A i \in 1..n : \A p \in f[i] : p < i}}
           : n \in 0..MaxCategoryID}

\* The categories exist when the calls arrive.
ReparentInit ==
    /\ cms_categories \in CreatedCategories
    /\ cms_article_categories = {}
    /\ cops = 0
    /\ stmt = NoStatement
    /\ sessions = [s \in Sessions |-> IdleSession]

notReparentVars ==
    <<matchVars, treeVars, rbacVars, adminVars, userVars, articleVars,
      cms_article_categories, cops>>

\* Lines 51-57: a call with its arguments arrives and First reads the row.
FirstCategory ==
    \E s \in Sessions, categoryID \in CategoryIDs,
       ParentID \in CategoryParents \ {{}} :
       /\ sessions[s].pc = "idle"
       /\ sessions' = [sessions EXCEPT ![s] =
             IF categoryID \in DOMAIN cms_categories
             THEN [pc |-> "read", categoryID |-> categoryID, ParentID |-> ParentID,
                   category |-> cms_categories[categoryID], err |-> FALSE]
             ELSE [pc |-> "done", categoryID |-> categoryID, ParentID |-> ParentID,
                   category |-> NoRow, err |-> TRUE]]
       /\ UNCHANGED <<cms_categories, stmt, notReparentVars>>

\* The row that UPDATE cms_categories SET parent_id = ? WHERE category_id = ?
\* leaves: trg_category_path sets NEW.path in the row version the statement
\* writes, so parent_id and path are replaced together.
ReparentedRow_keepPath(categoryID, ParentID) ==
    [cms_categories[categoryID] EXCEPT !.ParentID = ParentID]

ReparentedRow(categoryID, ParentID) ==
    [cms_categories[categoryID] EXCEPT
        !.ParentID = ParentID,
        !.Path = update_category_path(categoryID, ParentID).path]

\* Lines 87-111: Updates(updates) with parent_id in the map.  The statement
\* takes the row lock, so of two calls on one row the second runs its trigger
\* and writes after the first has committed.
UpdatesCategory ==
    \E s \in Sessions :
       LET categoryID == sessions[s].categoryID
           ParentID   == sessions[s].ParentID
           raise      == update_category_path(categoryID, ParentID).raise
       IN /\ sessions[s].pc = "read"
          /\ sessions' = [sessions EXCEPT ![s].pc = "done", ![s].err = raise]
          /\ stmt' = [op |-> "update", id |-> categoryID, article |-> s,
                      parent |-> ParentID, err |-> raise]
          /\ cms_categories' =
                IF raise THEN cms_categories
                ELSE [cms_categories EXCEPT
                         ![categoryID] = ReparentedRow(categoryID, ParentID)]
          /\ UNCHANGED notReparentVars

----------------------------------------------------------------------------
(* Tokens (SpecToken): LoginUser and RefreshToken (unnamed/part_009:77-185), *)
(* AssignRoles (unnamed/part_009:409-438) and JWTAuth (unnamed/part_016) in   *)
(* front of RBACAuth.  A token is the claims it was signed with; the time of  *)
(* its ExpiresAt passes in the step TokenExpires.                             *)

MaxTokens == 3      \* tokens issued in one behaviour

\* The enabled user whose roles and tokens are followed.
UserIDs == {1}

\* roleIDs of an AssignRoles call: none, the super admin, the role that holds
\* the permission, a role that holds none.
AssignedRoleIDs == {{}, {1}, {2}, {3}}

\* One API permission, GET:/api/v1/users/*, granted to role 2 alone; no user
\* has a role yet and no token is out.
TokenInit ==
    /\ sys_permissions = <<[PermType |-> 3, ParentID |-> {}, APIPath |-> GetUsersWild,
                            IsEnabled |-> TRUE]>>
    /\ sys_roles = [r \in RoleIDs |-> [IsEnabled |-> TRUE]]
    /\ sys_role_permissions = {<<2, 1>>}
    /\ ops = 0
    /\ RequestInit
    /\ sys_user_roles = {}
    /\ tokens = <<>>

notTokenVars ==
    <<matchVars, treeVars, adminVars, catVars, sessions, articleVars>>

\* SELECT role_id FROM sys_user_roles WHERE user_id = ? (lines 101-107, 167-173)
UserRoleIDs(userID) == {r \in RoleIDs : <<userID, r>> \in sys_user_roles}

\* GenerateToken(user.UserID, roleIDs, ...): the access token carries the role
\* IDs just read; GenerateRefreshToken(user.UserID, ...) carries none.
AccessToken(userID) ==
    [kind |-> "access", UserID |-> userID, RoleIDs |-> UserRoleIDs(userID),
     expired |-> FALSE]

RefreshTokenOf(userID) ==
    [kind |-> "refresh", UserID |-> userID, RoleIDs |-> {}, expired |-> FALSE]

\* LoginUser with the name and password of an enabled user: an access token
\* and a refresh token, or an error when the role query fails.
LoginUser ==
    /\ rpc = "idle"
    /\ \E userID \in UserIDs, dbFails \in BOOLEAN :
          IF dbFails
          THEN UNCHANGED tokens
          ELSE /\ Len(tokens) + 2 <= MaxTokens
               /\ tokens' = tokens \o <<AccessToken(userID), RefreshTokenOf(userID)>>
    /\ UNCHANGED <<rbacVars, sys_user_roles, notTokenVars>>

\* RefreshToken with a token issued earlier: ParseRefreshToken
\* (unnamed/part_007:313-335) rejects an expired token; it reads user_id from
\* any token signed with the secret.  Otherwise a new access token with the
\* roles read now.
RefreshToken ==
    /\ rpc = "idle"
    /\ \E t \in DOMAIN tokens, dbFails \in BOOLEAN :
          IF tokens[t].expired \/ dbFails
          THEN UNCHANGED tokens
          ELSE /\ Len(tokens) + 1 <= MaxTokens
               /\ tokens' = Append(tokens, AccessToken(tokens[t].UserID))
    /\ UNCHANGED <<rbacVars, sys_user_roles, notTokenVars>>

\* AssignRoles: in one transaction the rows of the user are deleted and one
\* row per element of roleIDs inserted; an error rolls everything back.
AssignRoles ==
    /\ rpc = "idle"
    /\ \E userID \in UserIDs, roleIDs \in AssignedRoleIDs, dbFails \in BOOLEAN :
          sys_user_roles' =
             IF dbFails THEN sys_user_roles
             ELSE {ur \in sys_user_roles : ur[1] # userID}
                     \cup {<<userID, r>> : r \in roleIDs}
    /\ UNCHANGED <<rbacVars, tokens, notTokenVars>>

\* The time of ExpiresAt of a token passes.
TokenExpires ==
    /\ \E t \in DOMAIN tokens :
          /\ ~tokens[t].expired
          /\ tokens' = [tokens EXCEPT ![t].expired = TRUE]
    /\ UNCHANGED <<rbacVars, sys_user_roles, notTokenVars>>

\* c.Set("role_ids", claims.RoleIDs), unnamed/part_016:74, for the token t.
ContextRoleIDs_fromStore(t) == UserRoleIDs(tokens[t].UserID)

ContextRoleIDs(t) == tokens[t].RoleIDs

\* JWTAuth for a request that carries the token t in its Authorization
\* header: 401 and Abort when the token expired (lines 47-68), otherwise the
\* claims go into the context and the chain goes on to RBACAuth.  A refresh
\* token parses as claims without role_ids.
JWTAuth ==
    /\ rpc = "idle"
    /\ \E t \in DOMAIN tokens, q \in Requests :
          /\ IF tokens[t].expired
             THEN /\ req' = [entry |-> "RBACAuth", hasUser |-> FALSE, hasRoles |-> FALSE,
                             roleIDs |-> {}, path |-> q.path, method |-> q.method,
                             token |-> t]
                  /\ res' = [NoResult EXCEPT !.status = 401, !.aborted = TRUE]
                  /\ rpc' = "chain"
             ELSE /\ req' = [entry |-> "RBACAuth", hasUser |-> TRUE, hasRoles |-> TRUE,
                             roleIDs |-> ContextRoleIDs(t), path |-> q.path,
                             method |-> q.method, token |-> t]
                  /\ res' = NoResult
                  /\ rpc' = "rbac"
    /\ handlerRan' = FALSE
    /\ UNCHANGED <<storeVars, ops, userVars, notTokenVars>>

----------------------------------------------------------------------------
(* AssignPermissions statement by statement (SpecAssign),                    *)
(* unnamed/part_010:248-285: what the transaction sees after each statement  *)
(* and what it leaves when it ends.  failAt numbers the statement the        *)
(* database fails at on its own account: 0 none, 1 the DELETE, i + 1 the     *)
(* INSERT of permIDs[i], Len(permIDs) + 2 the COMMIT.                        *)

\* Stores the call finds: permissions 1..n, and role 2 and role 3 holding any
\* of them.
AssignInit ==
    /\ sys_permissions \in
          UNION {[1..n -> [PermType : {3}, ParentID : {{}},
                           APIPath : {GetUsersWild}, IsEnabled : {TRUE}]]
                   : n \in 0..MaxPermID}
    /\ sys_roles = [r \in RoleIDs |-> [IsEnabled |-> TRUE]]
    /\ sys_role_permissions \in SUBSET ({2, 3} \X DOMAIN sys_permissions)
    /\ ops = 0
    /\ RequestInit
    /\ call = NoCall

\* tx.Rollback() (lines 270, 281): the rows are those from before Begin,
\* whatever the statements of the transaction did to its working copy.
Rollback_keepsWork(work) == work

Rollback(work) == sys_role_permissions

\* The loop of lines 275-284 from permIDs[i] on, on the working copy links:
\* an INSERT fails on the primary key (role_id, perm_id), on the foreign key
\* to sys_permissions, or when the database fails.
RECURSIVE CreateRolePermissions(_, _, _, _, _)
CreateRolePermissions(links, roleID, permIDs, i, failAt) ==
    IF i > Len(permIDs)
    THEN [err |-> FALSE, links |-> links]
    ELSE IF \/ failAt = i + 1
            \/ permIDs[i] \notin DOMAIN sys_permissions
            \/ <<roleID, permIDs[i]>> \in links
    THEN [err |-> TRUE, links |-> links]
    ELSE CreateRolePermissions(links \cup {<<roleID, permIDs[i]>>}, roleID, permIDs,
                               i + 1, failAt)

AssignPermissionsRun(roleID, permIDs, failAt) ==
    IF roleID \notin DOMAIN sys_roles
    THEN [err |-> TRUE, links |-> sys_role_permissions]
    ELSE IF failAt = 1
    THEN [err |-> TRUE, links |-> Rollback(sys_role_permissions)]
    ELSE LET deleted == {l \in sys_role_permissions : l[1] # roleID}
             created == CreateRolePermissions(deleted, roleID, permIDs, 1, failAt)
         IN IF created.err
            THEN [err |-> TRUE, links |-> Rollback(created.links)]
            ELSE IF failAt = Len(permIDs) + 2
            THEN [err |-> TRUE, links |-> Rollback(created.links)]
            ELSE [err |-> FALSE, links |-> created.links]

\* One call of AssignPermissions.
AssignPermissionsCall ==
    /\ call = NoCall
    /\ \E roleID \in AssignRoleIDs, permIDs \in AssignPermIDs :
       \E failAt \in 0..(Len(permIDs) + 2) :
          LET tx == AssignPermissionsRun(roleID, permIDs, failAt) IN
          /\ sys_role_permissions' = tx.links
          /\ call' = [NoCall EXCEPT !.op = "AssignPermissions",
                                    !.roleID = roleID,
                                    !.permIDs = permIDs,
                                    !.err = tx.err]
    /\ ops' = ops + 1
    /\ UNCHANGED <<sys_permissions, sys_roles, reqVars, matchVars, treeVars,
                   catVars, siteVars>>

----------------------------------------------------------------------------
(* CategoryController (SpecController), unnamed/part_002: CreateCategory     *)
(* (198-262) and UpdateCategory (287-399), two requests served at the same   *)
(* time.  The methods of model.CategoryModel the controller calls are not in *)
(* the repository's sources; they are taken as the one query each that their *)
(* name and the written description of the category tree give them.          *)

MaxRequests == 3    \* requests in one behaviour

\* parent_id of a request body (a uint): 0 or the ID of a possible category.
RequestParentIDs == {0} \cup CategoryIDs

IdleRequest ==
    [pc |-> "idle", categoryID |-> 0, ParentID |-> 0, err |-> FALSE]

ControllerInit ==
    /\ cms_categories \in CreatedCategories
    /\ cms_article_categories = {}
    /\ cops = 0
    /\ stmt = NoStatement
    /\ sessions = [s \in Sessions |-> IdleRequest]

\* categoryModel.CheckCategoryExists(id): a row with this category_id exists.
CheckCategoryExists(id) == id \in DOMAIN cms_categories

\* categoryModel.IsChildCategory(categoryID, parentID): parentID is below
\* categoryID, decided on the stored paths (the path of a descendant starts
\* with the path of its ancestor).
IsChildCategory(categoryID, parentID) ==
    /\ parentID # categoryID
    /\ HasPrefix(cms_categories[parentID].Path, cms_categories[categoryID].Path)

\* categoryModel.CreateCategory / UpdateCategory hand parent_id to the
\* database as the request gave it, 0 included.
ParentColumn(ParentID) == {ParentID}

\* CreateCategory, lines 198-262, for a fresh name and key: the parent is
\* looked up when parent_id > 0, then the row is inserted and
\* trg_category_path fires.
notControllerVars ==
    <<matchVars, treeVars, rbacVars, adminVars, userVars, articleVars>>

ControllerCreateCategory ==
    /\ \A s \in Sessions : sessions[s].pc = "idle"
    /\ cops < MaxRequests
    /\ \E ParentID \in RequestParentIDs :
       LET id   == Len(cms_categories) + 1
           row  == update_category_path(id, ParentColumn(ParentID))
           rejected == ParentID > 0 /\ ~CheckCategoryExists(ParentID)
           failed == rejected \/ row.raise
       IN /\ failed \/ id <= MaxCategoryID
          /\ cms_categories' =
                IF failed THEN cms_categories
                ELSE Append(cms_categories,
                            [ParentID |-> ParentColumn(ParentID), Path |-> row.path,
                             ArticleCount |-> 0])
          /\ stmt' = [op |-> "insert", id |-> id, article |-> 0,
                      parent |-> ParentColumn(ParentID), err |-> failed]
    /\ cops' = cops + 1
    /\ UNCHANGED <<sessions, cms_article_categories, notControllerVars>>

\* UpdateCategory, lines 287-341: the request arrives and the lookups of the
\* category, of "parent is the category itself" and of the parent are made.
\* No request deletes a category, so the lookups are taken in one step.
ControllerChecksExist ==
    \E s \in Sessions, categoryID \in CategoryIDs, ParentID \in RequestParentIDs :
       /\ sessions[s].pc = "idle"
       /\ cops < MaxRequests
       /\ cops' = cops + 1
       /\ LET rejected ==
                 \/ ~CheckCategoryExists(categoryID)
                 \/ ParentID > 0 /\ ParentID = categoryID
                 \/ ParentID > 0 /\ ~CheckCategoryExists(ParentID)
          IN sessions' = [sessions EXCEPT ![s] =
                [pc |-> IF rejected THEN "done"
                        ELSE IF ParentID > 0 THEN "child" ELSE "update",
                 categoryID |-> categoryID, ParentID |-> ParentID,
                 err |-> rejected]]
       /\ UNCHANGED <<cms_categories, stmt, cms_article_categories, notControllerVars>>

\* Lines 343-354: the IsChildCategory query.
ControllerChecksChild ==
    \E s \in Sessions :
       /\ sessions[s].pc = "child"
       /\ LET isChild == IsChildCategory(sessions[s].categoryID, sessions[s].ParentID)
          IN sessions' = [sessions EXCEPT
                ![s].pc = IF isChild THEN "done" ELSE "update",
                ![s].err = isChild]
       /\ UNCHANGED <<cms_categories, stmt, cms_article_categories, cops, notControllerVars>>

\* Lines 357-396: updates["parent_id"] = req.ParentID in every request, and
\* the UPDATE with trg_category_path.
ControllerUpdates ==
    \E s \in Sessions :
       LET categoryID == sessions[s].categoryID
           parent     == ParentColumn(sessions[s].ParentID)
           raise      == update_category_path(categoryID, parent).raise
       IN /\ sessions[s].pc = "update"
          /\ sessions' = [sessions EXCEPT ![s].pc = "done", ![s].err = raise]
          /\ stmt' = [op |-> "update", id |-> categoryID, article |-> s,
                      parent |-> parent, err |-> raise]
          /\ cms_categories' =
                IF raise THEN cms_categories
                ELSE [cms_categories EXCEPT
                         ![categoryID] = ReparentedRow(categoryID, parent)]
          /\ UNCHANGED <<cms_article_categories, cops, notControllerVars>>

\* The response is out; the goroutine serves the next request.
ControllerResponds ==
    \E s \in Sessions :
       /\ sessions[s].pc = "done"
       /\ sessions' = [sessions EXCEPT ![s] = IdleRequest]
       /\ UNCHANGED <<cms_categories, stmt, cms_article_categories, cops, notControllerVars>>

----------------------------------------------------------------------------
(* Built-in permissions (SpecBuiltin): CreatePermission, UpdatePermission,   *)
(* UpdatePermissionStatus and DeletePermission of permission_service.go with *)
(* the is_builtin flag.  DeletePermission removes rows, so a row of          *)
(* sys_permissions carries Exists here: the serial never hands out the ID of *)
(* a deleted row again.  The forms are those of menu entries: fresh names    *)
(* and keys, no api_path.                                                    *)

BuiltinForms ==
    [ParentID : {{}} \cup {{p} : p \in PermIDs}, IsBuiltin : BOOLEAN]

BuiltinUpdateForms ==
    [ParentID : {{}} \cup {{p} : p \in PermIDs}, IsBuiltin : {{}, {TRUE}, {FALSE}}]

NoBuiltinCall == [op |-> "none", permID |-> 0, IsBuiltin |-> {}, err |-> FALSE]

BuiltinInit ==
    /\ sys_permissions = <<>>
    /\ sys_roles = [r \in RoleIDs |-> [IsEnabled |-> TRUE]]
    /\ sys_role_permissions = {}
    /\ ops = 0
    /\ RequestInit
    /\ call = NoBuiltinCall

\* model.DB.First(&permission, permID) finds a row.
PermissionExists(permID) ==
    permID \in DOMAIN sys_permissions /\ sys_permissions[permID].Exists

\* CreatePermission, permission_service.go:11-65.
CreateBuiltinTx(form) ==
    [err |-> FALSE,
     perms |-> Append(sys_permissions,
                      [Exists |-> TRUE, ParentID |-> form.ParentID,
                       IsEnabled |-> TRUE, IsBuiltin |-> form.IsBuiltin])]

\* UpdatePermission, permission_service.go:68-172: a built-in permission
\* cannot be made a plain one (lines 78-81); is_builtin and parent_id are
\* written when the form sets them.
UpdateBuiltinTx(permID, form) ==
    IF ~PermissionExists(permID)
    THEN [err |-> TRUE, perms |-> sys_permissions]
    ELSE IF sys_permissions[permID].IsBuiltin /\ form.IsBuiltin = {FALSE}
    THEN [err |-> TRUE, perms |-> sys_permissions]
    ELSE [err |-> FALSE,
          perms |-> [sys_permissions EXCEPT ![permID] =
                        [@ EXCEPT !.ParentID = IF form.ParentID = {} THEN @
                                               ELSE form.ParentID,
                                  !.IsBuiltin = Patch(@, form.IsBuiltin)]]]

\* UpdatePermissionStatus, permission_service.go:324-340.
UpdateBuiltinStatusTx(permID, isEnabled) ==
    IF ~PermissionExists(permID)
    THEN [err |-> TRUE, perms |-> sys_permissions]
    ELSE [err |-> FALSE,
          perms |-> [sys_permissions EXCEPT ![permID].IsEnabled = isEnabled]]

\* DeletePermission, permission_service.go:255-294: a built-in permission, one
\* with children and one assigned to a role are not deleted.
DeletePermissionTx_noBuiltinCheck(permID) ==
    IF ~PermissionExists(permID)
    THEN [err |-> TRUE, perms |-> sys_permissions]
    ELSE IF \E c \in DOMAIN sys_permissions :
               sys_permissions[c].Exists /\ sys_permissions[c].ParentID = {permID}
    THEN [err |-> TRUE, perms |-> sys_permissions]
    ELSE IF \E l \in sys_role_permissions : l[2] = permID
    THEN [err |-> TRUE, perms |-> sys_permissions]
    ELSE [err |-> FALSE,
          perms |-> [sys_permissions EXCEPT ![permID].Exists = FALSE]]

DeletePermissionTx(permID) ==
    IF ~PermissionExists(permID)
    THEN [err |-> TRUE, perms |-> sys_permissions]
    ELSE IF sys_permissions[permID].IsBuiltin
    THEN [err |-> TRUE, perms |-> sys_permissions]
    ELSE IF \E c \in DOMAIN sys_permissions :
               sys_permissions[c].Exists /\ sys_permissions[c].ParentID = {permID}
    THEN [err |-> TRUE, perms |-> sys_permissions]
    ELSE IF \E l \in sys_role_permissions : l[2] = permID
    THEN [err |-> TRUE, perms |-> sys_permissions]
    ELSE [err |-> FALSE,
          perms |-> [sys_permissions EXCEPT ![permID].Exists = FALSE]]

BuiltinReady == ops < MaxOps

\* A call returns with the table as given.
BuiltinReturns(perms, links, c) ==
    /\ ops' = ops + 1
    /\ sys_permissions' = perms
    /\ sys_role_permissions' = links
    /\ call' = c
    /\ UNCHANGED <<sys_roles, reqVars, matchVars, treeVars, catVars, siteVars>>

BuiltinCreatePermission ==
    /\ BuiltinReady
    /\ \E form \in BuiltinForms :
          LET tx == CreateBuiltinTx(form) IN
          /\ Len(sys_permissions) < MaxPermID
          /\ BuiltinReturns(tx.perms, sys_role_permissions,
                            [op |-> "CreatePermission", permID |-> Len(sys_permissions) + 1,
                             IsBuiltin |-> {form.IsBuiltin}, err |-> tx.err])

BuiltinUpdatePermission ==
    /\ BuiltinReady
    /\ \E permID \in PermIDs, form \in BuiltinUpdateForms :
          LET tx == UpdateBuiltinTx(permID, form) IN
          BuiltinReturns(tx.perms, sys_role_permissions,
                         [op |-> "UpdatePermission", permID |-> permID,
                          IsBuiltin |-> form.IsBuiltin, err |-> tx.err])

BuiltinUpdatePermissionStatus ==
    /\ BuiltinReady
    /\ \E permID \in PermIDs, isEnabled \in BOOLEAN :
          LET tx == UpdateBuiltinStatusTx(permID, isEnabled) IN
          BuiltinReturns(tx.perms, sys_role_permissions,
                         [op |-> "UpdatePermissionStatus", permID |-> permID,
                          IsBuiltin |-> {}, err |-> tx.err])

BuiltinDeletePermission ==
    /\ BuiltinReady
    /\ \E permID \in PermIDs :
          LET tx == DeletePermissionTx(permID) IN
          BuiltinReturns(tx.perms, sys_role_permissions,
                         [op |-> "DeletePermission", permID |-> permID,
                          IsBuiltin |-> {}, err |-> tx.err])

\* AssignPermissions(2, [permID]), unnamed/part_010:248-285: role 2 holds
\* permID alone afterwards; the foreign key rejects a permission that is gone.
BuiltinAssignPermissions ==
    /\ BuiltinReady
    /\ \E permID \in PermIDs :
          BuiltinReturns(sys_permissions,
                         IF PermissionExists(permID) THEN {<<2, permID>>}
                         ELSE sys_role_permissions,
                         [op |-> "AssignPermissions", permID |-> permID,
                          IsBuiltin |-> {}, err |-> ~PermissionExists(permID)])

----------------------------------------------------------------------------
(* Comments (SpecComment): CreateComment and DeleteComment                   *)
(* (unnamed/part_011:11-66, 104-159) on cms_comments (pg.sql:568-585) and    *)
(* the comment_count column of cms_articles (pg.sql:361).  A deleted comment *)
(* keeps its place in the sequence with Exists = FALSE: the serial does not  *)
(* hand out its ID again.                                                    *)

MaxCommentID    == 3    \* CreateComment inserts comment_id 1..MaxCommentID
MaxCommentCalls == 4    \* calls in one behaviour

CommentIDs == 1..MaxCommentID

\* parent_id of a comment form (a *int64): nil or the ID of a possible comment.
CommentParents == {{}} \cup {{c} : c \in CommentIDs}

\* The articles exist and are published; nobody has commented or liked yet.
ArticleInit ==
    /\ cms_articles = [a \in ArticleIDs |-> [CommentCount |-> 0, LikeCount |-> 0]]
    /\ cms_comments = <<>>
    /\ cms_article_likes = {}

notCommentVars ==
    <<matchVars, treeVars, storeVars, reqVars, adminVars, catVars, sessions, userVars,
      cms_article_likes>>

CommentExists(c) == c \in DOMAIN cms_comments /\ cms_comments[c].Exists

\* FOREIGN KEY (parent_id) REFERENCES cms_comments ON DELETE CASCADE: the
\* comments that go when the comments of gone go.
RECURSIVE CascadeDelete(_)
CascadeDelete(gone) ==
    LET replies == {c \in DOMAIN cms_comments :
                      /\ cms_comments[c].Exists
                      /\ c \notin gone
                      /\ cms_comments[c].ParentID \cap gone # {}}
    IN IF replies = {} THEN gone ELSE CascadeDelete(gone \cup replies)

\* The rows DELETE FROM cms_comments WHERE comment_id = ? removes.
DeletedComments(commentID) == CascadeDelete({commentID})

\* CreateComment for a published article: the INSERT (rejected by the foreign
\* key when parent_id names no comment) and comment_count + 1 in one
\* transaction.
CreateComment ==
    /\ ops < MaxCommentCalls
    /\ \E ArticleID \in ArticleIDs, ParentID \in CommentParents, dbFails \in BOOLEAN :
          IF dbFails \/ \E p \in ParentID : ~CommentExists(p)
          THEN UNCHANGED <<cms_articles, cms_comments>>
          ELSE /\ Len(cms_comments) < MaxCommentID
               /\ cms_comments' = Append(cms_comments,
                                         [Exists |-> TRUE, ArticleID |-> ArticleID,
                                          ParentID |-> ParentID])
               /\ cms_articles' = [cms_articles EXCEPT ![ArticleID].CommentCount = @ + 1]
    /\ ops' = ops + 1
    /\ UNCHANGED notCommentVars

\* DeleteComment by the author or an administrator: the DELETE of the row
\* read by First and comment_count - 1 for its article in one transaction.
DeleteComment ==
    /\ ops < MaxCommentCalls
    /\ \E commentID \in CommentIDs, dbFails \in BOOLEAN :
          IF dbFails \/ ~CommentExists(commentID)
          THEN UNCHANGED <<cms_articles, cms_comments>>
          ELSE /\ cms_comments' =
                     [c \in DOMAIN cms_comments |->
                         IF c \in DeletedComments(commentID)
                         THEN [cms_comments[c] EXCEPT !.Exists = FALSE]
                         ELSE cms_comments[c]]
               /\ cms_articles' =
                     [cms_articles EXCEPT
                         ![cms_comments[commentID].ArticleID].CommentCount = @ - 1]
    /\ ops' = ops + 1
    /\ UNCHANGED notCommentVars

----------------------------------------------------------------------------
(* Likes (SpecLike): concurrent LikeArticle calls                            *)
(* (unnamed/part_008:524-587).  The like rows are taken with a unique key on *)
(* (article_id, user_id), the schema most favourable to the handler: a       *)
(* second INSERT of a pair fails and its transaction is rolled back.  Under  *)
(* READ COMMITTED the two statements of the transaction then act as one      *)
(* step: a second writer of the same like row or of the same article row     *)
(* waits for the first to commit and works on what it committed.             *)

MaxLikeCalls == 4    \* LikeArticle calls in one behaviour

LikeUserIDs == {1, 2}

IdleLike == [pc |-> "idle", articleID |-> 0, userID |-> 0, count |-> 0]

LikeInit ==
    /\ ArticleInit
    /\ sessions = [s \in Sessions |-> IdleLike]

notLikeVars ==
    <<matchVars, treeVars, storeVars, reqVars, adminVars, catVars, userVars, cms_comments>>

\* SELECT count(*) FROM likes WHERE article_id = ? AND user_id = ?
LikeCountOf(articleID, userID) ==
    Cardinality({l \in cms_article_likes : l = <<articleID, userID>>})

\* First(&article) and the Count of the user's like rows, before the
\* transaction begins.
LikeArticleCounts ==
    /\ ops < MaxLikeCalls
    /\ \E s \in Sessions, articleID \in ArticleIDs, userID \in LikeUserIDs :
          /\ sessions[s].pc = "idle"
          /\ sessions' = [sessions EXCEPT ![s] =
                             [pc |-> "counted", articleID |-> articleID, userID |-> userID,
                              count |-> LikeCountOf(articleID, userID)]]
    /\ ops' = ops + 1
    /\ UNCHANGED <<cms_articles, cms_article_likes, notLikeVars>>

\* The transaction: count > 0 deletes the user's like rows (none is no error)
\* and takes 1 from like_count; count = 0 inserts a like row and adds 1, or
\* is rolled back when the row is there by now.
LikeArticleCommits ==
    /\ \E s \in Sessions :
          LET articleID == sessions[s].articleID
              like      == <<articleID, sessions[s].userID>>
          IN /\ sessions[s].pc = "counted"
             /\ sessions' = [sessions EXCEPT ![s] = IdleLike]
             /\ IF sessions[s].count > 0
                THEN /\ cms_article_likes' = cms_article_likes \ {like}
                     /\ cms_articles' = [cms_articles EXCEPT ![articleID].LikeCount = @ - 1]
                ELSE IF like \in cms_article_likes
                THEN UNCHANGED <<cms_articles, cms_article_likes>>
                ELSE /\ cms_article_likes' = cms_article_likes \cup {like}
                     /\ cms_articles' = [cms_articles EXCEPT ![articleID].LikeCount = @ + 1]
    /\ UNCHANGED <<ops, notLikeVars>>

----------------------------------------------------------------------------
InitMatch == MatchInit /\ TreeIdleInit /\ RbacIdleInit /\ AdminIdleInit /\ CatIdleInit /\ SiteIdleInit
NextMatch == MatchCall
SpecMatch == InitMatch /\ [][NextMatch]_vars

InitTree == TreeInit /\ MatchIdleInit /\ RbacIdleInit /\ AdminIdleInit /\ CatIdleInit /\ SiteIdleInit
NextTree == BuildMap \/ LinkNode \/ TreeReturn
SpecTree == InitTree /\ [][NextTree]_vars

Init == RbacInit /\ MatchIdleInit /\ TreeIdleInit /\ AdminIdleInit /\ CatIdleInit /\ SiteIdleInit
Next ==
    \/ NewRequest
    \/ RBACAuth
    \/ Handler
    \/ ChainAborted
    \/ CheckPermissionCall
    \/ Finish
    \/ CreatePermission
    \/ UpdatePermission
    \/ UpdatePermissionStatus
    \/ UpdateRoleStatus
    \/ AssignPermissions
Spec == Init /\ [][Next]_vars

InitCat == CatInit /\ MatchIdleInit /\ TreeIdleInit /\ RbacIdleInit /\ AdminIdleInit /\ SiteIdleInit
NextCat ==
    \/ CreateCategory
    \/ UpdateCategory
    \/ InsertArticleCategory
    \/ DeleteArticleCategory
SpecCat == InitCat /\ [][NextCat]_vars

InitAdmin == RbacInit /\ AdminIdleInit /\ TreeIdleInit /\ MatchIdleInit /\ CatIdleInit /\ SiteIdleInit
NextAdmin ==
    \/ AdminCreatePermission
    \/ AdminUpdatePermission
    \/ AdminUpdatePermissionStatus
    \/ AdminAssignPermissions
    \/ GetPermissionTree
    \/ BuildMap
    \/ LinkNode
    \/ TreeReturn
SpecAdmin == InitAdmin /\ [][NextAdmin]_vars

InitCheck == CheckInit /\ AdminIdleInit /\ TreeIdleInit /\ MatchIdleInit /\ CatIdleInit /\ SiteIdleInit
NextCheck ==
    \/ NewRequest
    \/ RBACAuth
    \/ Handler
    \/ ChainAborted
    \/ CheckPermissionCall
    \/ Finish
SpecCheck == InitCheck /\ [][NextCheck]_vars


InitReparent ==
    /\ ReparentInit /\ MatchIdleInit /\ TreeIdleInit /\ RbacIdleInit /\ AdminIdleInit
    /\ sys_user_roles = {} /\ tokens = <<>>
    /\ cms_articles = <<>> /\ cms_comments = <<>> /\ cms_article_likes = {}
NextReparent ==
    \/ FirstCategory
    \/ UpdatesCategory
SpecReparent == InitReparent /\ [][NextReparent]_vars


InitToken ==
    /\ TokenInit /\ MatchIdleInit /\ TreeIdleInit /\ AdminIdleInit /\ CatIdleInit
    /\ sessions = <<>>
    /\ cms_articles = <<>> /\ cms_comments = <<>> /\ cms_article_likes = {}
NextToken ==
    \/ LoginUser
    \/ RefreshToken
    \/ AssignRoles
    \/ TokenExpires
    \/ JWTAuth
    \/ RBACAuth
    \/ Handler
    \/ ChainAborted
    \/ Finish
SpecToken == InitToken /\ [][NextToken]_vars


InitAssign == AssignInit /\ MatchIdleInit /\ TreeIdleInit /\ CatIdleInit /\ SiteIdleInit
NextAssign == AssignPermissionsCall
SpecAssign == InitAssign /\ [][NextAssign]_vars


InitController ==
    /\ ControllerInit /\ MatchIdleInit /\ TreeIdleInit /\ RbacIdleInit /\ AdminIdleInit
    /\ sys_user_roles = {} /\ tokens = <<>>
    /\ cms_articles = <<>> /\ cms_comments = <<>> /\ cms_article_likes = {}
NextController ==
    \/ ControllerCreateCategory
    \/ ControllerChecksExist
    \/ ControllerChecksChild
    \/ ControllerUpdates
    \/ ControllerResponds
SpecController == InitController /\ [][NextController]_vars


InitBuiltin == BuiltinInit /\ MatchIdleInit /\ TreeIdleInit /\ CatIdleInit /\ SiteIdleInit
NextBuiltin ==
    \/ BuiltinCreatePermission
    \/ BuiltinUpdatePermission
    \/ BuiltinUpdatePermissionStatus
    \/ BuiltinDeletePermission
    \/ BuiltinAssignPermissions
SpecBuiltin == InitBuiltin /\ [][NextBuiltin]_vars


InitComment ==
    /\ ArticleInit /\ MatchIdleInit /\ TreeIdleInit /\ RbacIdleInit /\ AdminIdleInit
    /\ CatIdleInit
    /\ sessions = <<>> /\ sys_user_roles = {} /\ tokens = <<>>
NextComment ==
    \/ CreateComment
    \/ DeleteComment
SpecComment == InitComment /\ [][NextComment]_vars


InitLike ==
    /\ LikeInit /\ MatchIdleInit /\ TreeIdleInit /\ RbacIdleInit /\ AdminIdleInit
    /\ CatIdleInit
    /\ sys_user_roles = {} /\ tokens = <<>>
NextLike ==
    \/ LikeArticleCounts
    \/ LikeArticleCommits
SpecLike == InitLike /\ [][NextLike]_vars

----------------------------------------------------------------------------
(* Properties of matchAPIPath (SpecMatch).  The descriptor is taken apart here *)
(* character by character, independently of SplitN2 / HasSuffix / HasPrefix.   *)

\* Position of the first ":" of the descriptor of the call (0: none).
DescColon ==
    LET d == mArgs.permPath IN
    IF \A i \in 1..Len(d) : d[i] # ":" THEN 0
    ELSE CHOOSE k \in 1..Len(d) : d[k] = ":" /\ \A j \in 1..Len(d) : d[j] = ":" => k <= j

\* Method part and path pattern of a descriptor that has a ":".
DescMethod  == [i \in 1..(DescColon - 1) |-> mArgs.permPath[i]]
DescPattern == [i \in 1..(Len(mArgs.permPath) - DescColon) |-> mArgs.permPath[DescColon + i]]

PatternIsWildcard ==
    /\ DescColon > 0
    /\ Len(DescPattern) >= 2
    /\ DescPattern[Len(DescPattern) - 1] = "/"
    /\ DescPattern[Len(DescPattern)] = "*"

\* The method part is the literal "*" or the request method up to letter case.
DescMethodMatches ==
    /\ DescColon > 0
    /\ \/ (Len(DescMethod) = 1 /\ DescMethod[1] = "*")
       \/ /\ Len(DescMethod) = Len(mArgs.requestMethod)
          /\ \A i \in 1..Len(DescMethod) :
                ToUpperChar(DescMethod[i]) = ToUpperChar(mArgs.requestMethod[i])

\* The request path starts with the pattern without its final "/*".
RequestStartsWithStripped ==
    /\ Len(mArgs.requestPath) >= Len(DescPattern) - 2
    /\ \A i \in 1..(Len(DescPattern) - 2) : mArgs.requestPath[i] = DescPattern[i]

RequestEqualsPattern ==
    /\ Len(mArgs.requestPath) = Len(DescPattern)
    /\ \A i \in 1..Len(DescPattern) : mArgs.requestPath[i] = DescPattern[i]

\* C7: for a descriptor whose path pattern ends with "/*" and whose method
\* matches, matchAPIPath returns true exactly when the request path starts with
\* the pattern minus its final "/*"; GET:/api/v1/users/* matches GET
\* /api/v1/users/42 and does not match POST /api/v1/users/42.
C7_WildcardPrefixMatch ==
    mpc = "ret" =>
      /\ (PatternIsWildcard /\ DescMethodMatches)
            => (mRet <=> RequestStartsWithStripped)
      /\ (mArgs.permPath = GetUsersWild /\ mArgs.requestPath = Users42Path
            /\ mArgs.requestMethod = GET) => mRet
      /\ (mArgs.permPath = GetUsersWild /\ mArgs.requestPath = Users42Path
            /\ mArgs.requestMethod = POST) => ~mRet

C7_Witness ==
    /\ mpc = "ret"
    /\ mArgs.permPath = GetUsersWild
    /\ mArgs.requestPath = Users42Path
    /\ mArgs.requestMethod = GET
    /\ mRet

\* C8: for a descriptor whose path pattern does not end with "/*" (or that has
\* no pattern at all), matchAPIPath returns true only when the request path
\* equals the pattern character for character; GET:/api/v1/users never matches
\* a request to /api/v1/users/1.
C8_ExactPathMatch ==
    mpc = "ret" =>
      /\ (~PatternIsWildcard /\ mRet) => (DescColon > 0 /\ RequestEqualsPattern)
      /\ (mArgs.permPath = GetUsersExact /\ mArgs.requestPath = Users1Path) => ~mRet

C8_Witness ==
    /\ mpc = "ret"
    /\ mArgs.permPath = GetUsersExact
    /\ mArgs.requestPath = UsersPath
    /\ mArgs.requestMethod = GET
    /\ mRet

----------------------------------------------------------------------------
(* Properties of BuildPermissionTree (SpecTree) *)

Range(f) == {f[i] : i \in DOMAIN f}

\* The nodes of the returned forest: the roots and everything below them.
RECURSIVE Below(_, _)
Below(front, seen) ==
    IF front \subseteq seen THEN seen
    ELSE LET new == front \ seen
         IN Below(UNION {Range(Children[n]) : n \in new}, seen \cup new)

OutputNodes == Below(Range(rootNodes), {})

\* Where node n stands in the returned forest: <<0, i>> is position i of the
\* root list, <<m, i>> position i of the Children of output node m.
OutputPositions(n) ==
    {<<0, i>> : i \in {j \in 1..Len(rootNodes) : rootNodes[j] = n}}
      \cup UNION {{<<m, i>> : i \in {j \in 1..Len(Children[m]) : Children[m][j] = n}}
                    : m \in OutputNodes}

InputIDs == {permissions[i].PermID : i \in 1..Len(permissions)}

\* n's parent_id is set, is not 0 and is the ID of no row of the input.
IsOrphan(n) ==
    /\ permMap[n].ParentID # {}
    /\ permMap[n].ParentID # {0}
    /\ permMap[n].ParentID \cap InputIDs = {}

SpecExampleInput ==
    << [PermID |-> 1, ParentID |-> {}],
       [PermID |-> 2, ParentID |-> {1}],
       [PermID |-> 3, ParentID |-> {99}] >>

\* C9: an orphan (parent_id non-null, non-zero, not an ID of the input) is in
\* no list of the result, neither the root list nor any Children list, and so
\* is no node of the output; [{1,null},{2,1},{3,99}] yields the single root 1
\* with the single child 2.
C9_OrphansDropped ==
    tpc = "done" =>
      /\ \A n \in DOMAIN permMap :
            IsOrphan(n) =>
              /\ n \notin OutputNodes
              /\ n \notin Range(rootNodes)
              /\ \A m \in DOMAIN Children : n \notin Range(Children[m])
      /\ permissions = SpecExampleInput =>
              /\ rootNodes = <<1>>
              /\ Children[1] = <<2>>
              /\ Children[2] = <<>>
              /\ OutputNodes = {1, 2}

C9_Witness ==
    /\ tpc = "done"
    /\ permissions = SpecExampleInput
    /\ rootNodes = <<1>>
    /\ IsOrphan(3)

\* C10: every node stands at most once in the returned forest, and a node of
\* the output is either in the root list with parent_id null or 0, or in the
\* Children list of exactly the output node whose ID is its parent_id.
C10_EachNodeOnce ==
    tpc = "done" =>
      /\ \A n \in InputIDs : Cardinality(OutputPositions(n)) <= 1
      /\ \A n \in OutputNodes :
            \E pos \in OutputPositions(n) :
               /\ OutputPositions(n) = {pos}
               /\ IF pos[1] = 0
                  THEN permMap[n].ParentID \in {{}, {0}}
                  ELSE permMap[n].ParentID = {pos[1]}

\* A returned forest with a root, a child and a grandchild.
C10_Witness ==
    /\ tpc = "done"
    /\ Len(rootNodes) = 1
    /\ Cardinality(OutputNodes) = 3
    /\ \E m \in OutputNodes : m \notin Range(rootNodes) /\ Children[m] # <<>>

----------------------------------------------------------------------------
(* Properties of the RBAC check (Spec).  Writes are taken between requests,  *)
(* so in a state with rpc "chain" or "done" the store is the one the check  *)
(* of the request in flight has read.                                       *)

Decided == rpc \in {"chain", "done"}

\* The check ran for a caller with both context keys and no superuser role.
DecidedNonSuper ==
    /\ Decided
    /\ req.hasUser
    /\ req.hasRoles
    /\ 1 \notin req.roleIDs

\* Permission p is linked to some role of the request.
LinkedToRequest(p) == \E r \in req.roleIDs : <<r, p>> \in sys_role_permissions

\* The access descriptor of p matches the method and path of the request.
DescriptorMatchesRequest(p) ==
    matchAPIPath(sys_permissions[p].APIPath, req.path, req.method)

\* C1: when role_ids contains 1, the RBAC check (RBACAuth, and CheckPermission
\* called on its own) allows whatever the path and method, and no storage query
\* is issued; on the guarded route the handler then runs.
C1_SuperuserBypass ==
    (Decided /\ req.hasUser /\ req.hasRoles /\ 1 \in req.roleIDs) =>
      /\ res.decision = "allow"
      /\ res.queries = 0
      /\ ~res.aborted
      /\ res.status \notin {401, 403, 500}
      /\ (rpc = "done" /\ req.entry = "RBACAuth") => handlerRan

\* A superuser who also holds a disabled role, on a store in which no role has
\* any permission, passes the middleware.
C1_Witness ==
    /\ rpc = "done"
    /\ req.entry = "RBACAuth"
    /\ req.roleIDs = {1, 2}
    /\ ~sys_roles[2].IsEnabled
    /\ sys_role_permissions = {}
    /\ res.decision = "allow"
    /\ res.queries = 0
    /\ handlerRan

\* C2: for role_ids without 1 (and a candidate fetch that succeeds; C3 is the
\* failed fetch) the check allows exactly when the store holds a permission
\* that is enabled, linked to a role of role_ids, of perm_type 3, with a
\* non-empty descriptor that matches the request; otherwise it denies.  The
\* empty role set is denied.
C2_AllowIffMatchingPermission ==
    (DecidedNonSuper /\ ~res.queryErr) =>
      /\ res.decision \in {"allow", "deny"}
      /\ res.decision = "allow" <=>
            \E p \in DOMAIN sys_permissions :
               /\ sys_permissions[p].IsEnabled
               /\ LinkedToRequest(p)
               /\ sys_permissions[p].PermType = 3
               /\ sys_permissions[p].APIPath # <<>>
               /\ DescriptorMatchesRequest(p)
      /\ req.roleIDs = {} => res.decision = "deny"

C2_Witness ==
    /\ rpc = "done"
    /\ req.entry = "CheckPermission"
    /\ 1 \notin req.roleIDs
    /\ res.decision = "allow"
    /\ res.queries = 1

\* C3: a storage error of the candidate fetch is no decision: CheckPermission
\* returns an error, and RBACAuth answers 500 and aborts; it never answers 403
\* and the handler never runs.
C3_StorageErrorIsInternalError ==
    (Decided /\ res.queryErr) =>
      /\ res.decision = "error"
      /\ req.entry = "RBACAuth" =>
            /\ res.status = 500
            /\ res.aborted
            /\ ~handlerRan

\* The fetch fails for a request that the store would have allowed.
C3_Witness ==
    /\ rpc = "done"
    /\ req.entry = "RBACAuth"
    /\ res.queryErr
    /\ res.status = 500
    /\ ~handlerRan
    /\ \E p \in DOMAIN sys_permissions :
          /\ sys_permissions[p].IsEnabled
          /\ LinkedToRequest(p)
          /\ sys_permissions[p].PermType = 3
          /\ DescriptorMatchesRequest(p)

\* C4: on the guarded chain the handler runs only after the decision allow;
\* a missing user_id (401), a missing role_ids (403), an error (500) and a deny
\* (403) abort the chain, and the handler does not run for an aborted request.
C4_HandlerOnlyAfterAllow ==
    req.entry = "RBACAuth" =>
      /\ handlerRan =>
            /\ res.decision = "allow"
            /\ ~res.aborted
            /\ req.hasUser /\ req.hasRoles
      /\ res.aborted => ~handlerRan
      /\ Decided =>
            /\ ~req.hasUser => (res.status = 401 /\ res.aborted)
            /\ (req.hasUser /\ ~req.hasRoles) => (res.status = 403 /\ res.aborted)
            /\ res.decision = "error" => (res.status = 500 /\ res.aborted)
            /\ res.decision = "deny" => (res.status = 403 /\ res.aborted)

C4_Witness ==
    /\ rpc = "done"
    /\ req.entry = "RBACAuth"
    /\ res.decision = "deny"
    /\ res.status = 403
    /\ res.aborted
    /\ ~handlerRan

\* C5: a disabled permission never causes an allow: when every permission
\* whose descriptor matches the request is disabled, a non-superuser request is
\* not allowed, whatever roles those permissions are assigned to.
C5_DisabledPermissionNeverAllows ==
    (DecidedNonSuper
       /\ \A p \in DOMAIN sys_permissions :
             DescriptorMatchesRequest(p) => ~sys_permissions[p].IsEnabled)
      => res.decision # "allow"

\* A permission that was disabled after its creation, is linked to a role of
\* the request and matches it: the request is denied.
C5_Witness ==
    /\ rpc = "done"
    /\ 1 \notin req.roleIDs
    /\ res.decision = "deny"
    /\ \E p \in DOMAIN sys_permissions :
          /\ ~sys_permissions[p].IsEnabled
          /\ sys_permissions[p].PermType = 3
          /\ LinkedToRequest(p)
          /\ DescriptorMatchesRequest(p)

\* C6: permissions of disabled roles are excluded: when every role of role_ids
\* that is linked to an enabled, matching API permission is disabled, a
\* non-superuser request is not allowed.
C6_DisabledRolesExcluded ==
    (DecidedNonSuper
       /\ \A r \in req.roleIDs :
             (\E p \in DOMAIN sys_permissions :
                 /\ <<r, p>> \in sys_role_permissions
                 /\ sys_permissions[p].IsEnabled
                 /\ sys_permissions[p].PermType = 3
                 /\ DescriptorMatchesRequest(p))
               => ~sys_roles[r].IsEnabled)
      => res.decision # "allow"

----------------------------------------------------------------------------
(* Properties of the category tables (SpecCat) *)

\* What the path of category c has to be, given the rows as they are now.
PathFromParent(c) ==
    IF cms_categories[c].ParentID = {}
    THEN <<c>>
    ELSE LET parent == CHOOSE x \in cms_categories[c].ParentID : TRUE IN
         IF parent \in DOMAIN cms_categories
         THEN cms_categories[parent].Path \o <<c>>
         ELSE <<>>

\* C11: after any sequence of category creates and reparents, every category
\* has path = own ID when it is a root and path = (current path of its current
\* parent) + own ID otherwise, the descendants of a reparented category
\* included.
C11_CategoryPathInvariant ==
    \A c \in DOMAIN cms_categories : cms_categories[c].Path = PathFromParent(c)

\* The statement just executed wrote parent_id of the row stmt'.id.
WritesParent ==
    /\ cops' # cops
    /\ \/ stmt'.op = "insert"
       \/ stmt'.op = "update" /\ stmt'.parent # {}

\* C12: an insert of a category, or an update of its parent_id, writes path =
\* own ID when parent_id is NULL and otherwise the stored path of the row named
\* by parent_id followed by the own ID; when parent_id names no existing
\* category the write is rejected and no row changes.
C12_WriteTimePath ==
    [][WritesParent =>
         LET id == stmt'.id
             exists == stmt'.op = "insert" \/ id \in DOMAIN cms_categories
         IN IF ~exists
            THEN stmt'.err /\ cms_categories' = cms_categories
            ELSE IF stmt'.parent = {}
            THEN /\ ~stmt'.err
                 /\ id \in DOMAIN cms_categories'
                 /\ cms_categories'[id].ParentID = {}
                 /\ cms_categories'[id].Path = <<id>>
            ELSE LET parent == CHOOSE x \in stmt'.parent : TRUE IN
                 IF parent \in DOMAIN cms_categories
                 THEN /\ ~stmt'.err
                      /\ id \in DOMAIN cms_categories'
                      /\ cms_categories'[id].ParentID = {parent}
                      /\ cms_categories'[id].Path = cms_categories[parent].Path \o <<id>>
                      /\ \A c \in DOMAIN cms_categories :
                            c # id => cms_categories'[c] = cms_categories[c]
                 ELSE /\ stmt'.err
                      /\ cms_categories' = cms_categories
                      /\ cms_article_categories' = cms_article_categories
    ]_vars

\* A category was moved under another category that is not a root itself.
C12_Witness ==
    /\ stmt.op = "update"
    /\ ~stmt.err
    /\ stmt.parent # {}
    /\ stmt.id \in DOMAIN cms_categories
    /\ Len(cms_categories[stmt.id].Path) = 3
    /\ \E parent \in stmt.parent :
          /\ parent # stmt.id
          /\ cms_categories[parent].ParentID # {}

AssociationRows(c) == {l \in cms_article_categories : l[2] = c}

\* C13: after any sequence of inserts and deletes on the article-category
\* association, article_count of every category is the number of association
\* rows that reference the category.
C13_ArticleCountInvariant ==
    \A c \in DOMAIN cms_categories :
        cms_categories[c].ArticleCount = Cardinality(AssociationRows(c))

\* A row was deleted from a category that still has another one.
C13_Witness ==
    /\ stmt.op = "unlink"
    /\ <<stmt.article, stmt.id>> \notin cms_article_categories
    /\ stmt.id \in DOMAIN cms_categories
    /\ cms_categories[stmt.id].ArticleCount = 1
    /\ Cardinality(AssociationRows(stmt.id)) = 1

----------------------------------------------------------------------------
(* Properties of the permission administration (SpecAdmin) *)

\* The pointer names a parent: it is not nil and not 0.
NamesParent(ptr) == ptr # {} /\ ptr # {0}

\* The call that just returned named a parent, role or permission that the
\* store did not hold when the call was made.
CallNamesMissingParent ==
    /\ call'.op \in {"CreatePermission", "UpdatePermission"}
    /\ NamesParent(call'.parentID)
    /\ call'.parentID \cap DOMAIN sys_permissions = {}

CallNamesMissingRoleOrPermission ==
    /\ call'.op = "AssignPermissions"
    /\ \/ call'.roleID \notin DOMAIN sys_roles
       \/ \E i \in 1..Len(call'.permIDs) : call'.permIDs[i] \notin DOMAIN sys_permissions

\* C14: a write that references a parent, role or permission that does not
\* exist is rejected and leaves the store unchanged: CreatePermission and
\* UpdatePermission with a parent_id that is not null, not 0 and names no
\* existing permission fail, and AssignPermissions with a non-existent role or
\* permission ID fails without changing the role's permission set.
C14_MissingReferenceRejected ==
    [][ops' # ops =>
         /\ CallNamesMissingParent => (call'.err /\ UNCHANGED storeVars)
         /\ CallNamesMissingRoleOrPermission =>
               (call'.err /\ sys_role_permissions' = sys_role_permissions)
    ]_vars

\* C15: the forest GetPermissionTree returns contains no permission with
\* is_enabled = false.
C15_TreeExcludesDisabled ==
    (tpc = "done" /\ call.op = "GetPermissionTree" /\ ~call.err) =>
        \A n \in Below(Range(rootNodes), {}) : permMap[n].IsEnabled

\* The permissions met when following parent_id from p, at most n times.
RECURSIVE PermAncestors(_, _)
PermAncestors(p, n) ==
    IF n = 0 \/ p \notin DOMAIN sys_permissions THEN {}
    ELSE IF ~NamesParent(sys_permissions[p].ParentID) THEN {}
    ELSE LET parent == CHOOSE x \in sys_permissions[p].ParentID : TRUE
         IN {parent} \cup PermAncestors(parent, n - 1)

\* C20: after any sequence of CreatePermission and UpdatePermission calls no
\* permission is its own parent or its own ancestor.
C20_ParentChainAcyclic ==
    \A p \in DOMAIN sys_permissions :
        p \notin PermAncestors(p, Len(sys_permissions))

----------------------------------------------------------------------------
(* The method part of a descriptor (SpecMatch) *)

\* The letters of the inputs, lower case and upper case.
LetterCases == {<<"g", "G">>, <<"e", "E">>, <<"t", "T">>, <<"p", "P">>, <<"u", "U">>}

SameLetter(a, b) == a = b \/ <<a, b>> \in LetterCases \/ <<b, a>> \in LetterCases

\* The method part is the literal "*", or the request method ignoring case.
MethodAccepted ==
    /\ DescColon > 0
    /\ \/ DescMethod = <<"*">>
       \/ /\ Len(DescMethod) = Len(mArgs.requestMethod)
          /\ \A i \in 1..Len(DescMethod) :
                SameLetter(DescMethod[i], mArgs.requestMethod[i])

\* C16: matchAPIPath accepts the method when the method part of the
\* descriptor is the literal "*" (whatever the request method) or equals the
\* request method ignoring letter case, the result then being the path match;
\* in every other case it rejects the descriptor whatever the path.
C16_MethodMatch ==
    (mpc = "ret" /\ DescColon > 0) =>
      /\ ~MethodAccepted => ~mRet
      /\ MethodAccepted =>
            (mRet <=> IF PatternIsWildcard THEN RequestStartsWithStripped
                      ELSE RequestEqualsPattern)

\* A lower-case method part accepted for the upper-case request method.
C16_Witness ==
    /\ mpc = "ret"
    /\ DescColon = 2
    /\ DescMethod = <<"g">>
    /\ mArgs.requestMethod = <<"G">>
    /\ mRet

----------------------------------------------------------------------------
(* Descriptors without a ":" (SpecCheck) *)

HasColon(d) == \E i \in 1..Len(d) : d[i] = ":"

\* Descriptor d, taken apart at its first ":", admits the method and the path.
AdmitsRequest(d, path, method) ==
    /\ HasColon(d)
    /\ LET k   == CHOOSE i \in 1..Len(d) :
                     d[i] = ":" /\ \A j \in 1..(i - 1) : d[j] # ":"
           m   == [i \in 1..(k - 1) |-> d[i]]
           pat == [i \in 1..(Len(d) - k) |-> d[k + i]]
           n   == Len(pat)
       IN /\ \/ m = <<"*">>
             \/ /\ Len(m) = Len(method)
                /\ \A i \in 1..Len(m) : SameLetter(m[i], method[i])
          /\ IF n >= 2 /\ pat[n - 1] = "/" /\ pat[n] = "*"
             THEN /\ Len(path) >= n - 2
                  /\ \A i \in 1..(n - 2) : path[i] = pat[i]
             ELSE path = pat

\* The candidates of the request: enabled and linked to one of its roles.
RequestCandidates ==
    {p \in DOMAIN sys_permissions : sys_permissions[p].IsEnabled /\ LinkedToRequest(p)}

MalformedCandidates ==
    {p \in RequestCandidates :
        /\ sys_permissions[p].PermType = 3
        /\ sys_permissions[p].APIPath # <<>>
        /\ ~HasColon(sys_permissions[p].APIPath)}

\* C17: a candidate whose descriptor does not split on the first ":" into two
\* parts is skipped: with such a candidate present the check returns no error,
\* allows only through another candidate, one whose descriptor admits the
\* request, and still allows whenever there is one.
C17_MalformedDescriptorSkipped ==
    (DecidedNonSuper /\ ~res.queryErr /\ MalformedCandidates # {}) =>
      /\ res.decision \in {"allow", "deny"}
      /\ res.decision = "allow" <=>
            \E p \in RequestCandidates \ MalformedCandidates :
               /\ sys_permissions[p].PermType = 3
               /\ AdmitsRequest(sys_permissions[p].APIPath, req.path, req.method)

\* The only candidate is "/api/v1/users/42", the very path of the request,
\* and the request is denied.
C17_Witness ==
    /\ rpc = "done"
    /\ req.entry = "CheckPermission"
    /\ req.roleIDs = {2}
    /\ req.path = Users42Path
    /\ RequestCandidates # {}
    /\ \A p \in RequestCandidates :
          sys_permissions[p].PermType = 3 /\ sys_permissions[p].APIPath = Users42Path
    /\ ~res.queryErr
    /\ res.decision = "deny"

----------------------------------------------------------------------------
(* Order and cycles in BuildPermissionTree (SpecTree) *)

\* Where the row of ID n stands in the input slice.
InputPos(n) == CHOOSE i \in 1..Len(permissions) : permissions[i].PermID = n

InInputOrder(list) ==
    \A i, j \in 1..Len(list) : i < j => InputPos(list[i]) < InputPos(list[j])

\* C18: the root list and the Children list of every node hold their nodes in
\* the order in which the nodes occur in the input slice.
C18_InputOrderPreserved ==
    tpc = "done" =>
      /\ InInputOrder(rootNodes)
      /\ \A n \in DOMAIN Children : InInputOrder(Children[n])

\* Every place node n was appended to: position i of the root list (<<0, i>>)
\* or of the Children of any node m (<<m, i>>), in the output or not.
AttachPositions(n) ==
    {<<0, i>> : i \in {j \in 1..Len(rootNodes) : rootNodes[j] = n}}
      \cup UNION {{<<m, i>> : i \in {j \in 1..Len(Children[m]) : Children[m][j] = n}}
                    : m \in DOMAIN Children}

\* The IDs met when following parent_id from n through the input, at most k times.
RECURSIVE TreeAncestors(_, _)
TreeAncestors(n, k) ==
    IF k = 0 \/ n \notin DOMAIN permMap THEN {}
    ELSE IF permMap[n].ParentID \in {{}, {0}} THEN {}
    ELSE LET parent == CHOOSE x \in permMap[n].ParentID : TRUE
         IN {parent} \cup TreeAncestors(parent, k - 1)

OnCycle(n) == n \in TreeAncestors(n, Cardinality(DOMAIN permMap))

\* C19: on every input, parent_id cycles and self-loops included, the second
\* loop visits one entry fewer with every iteration (so it ends after as many
\* iterations as there are entries), every node is appended at most once, and
\* no node of a cycle is reachable from a root of the returned list.
C19_CycleSafe ==
    /\ [](tpc \in {"link", "done"} =>
            /\ \A n \in DOMAIN permMap : Cardinality(AttachPositions(n)) <= 1
            /\ \A n \in DOMAIN permMap : OnCycle(n) => n \notin OutputNodes)
    /\ [][(tpc = "link" /\ tpc' = "link") =>
             (pending' \subseteq pending /\ pending' # pending)]_vars
    /\ [](tpc = "link" => pending \subseteq DOMAIN permMap)

\* A run that ended on an input with the cycle a -> b -> a next to a root.
C19_Witness ==
    /\ tpc = "done"
    /\ rootNodes # <<>>
    /\ \E a, b \in DOMAIN permMap :
          /\ a # b
          /\ permMap[a].ParentID = {b}
          /\ permMap[b].ParentID = {a}
          /\ Children[a] = <<b>>
          /\ Children[b] = <<a>>
          /\ {a, b} \cap OutputNodes = {}

----------------------------------------------------------------------------
(* GetCategoryTree against BuildPermissionTree (SpecTree) *)

\* The rows of the input slice read as cms_categories rows.
CategoryRows ==
    [i \in 1..Len(permissions) |->
        [CategoryID |-> permissions[i].PermID, ParentID |-> permissions[i].ParentID]]

\* C21: on the same (id, parent_id) rows GetCategoryTree and
\* BuildPermissionTree return the same set of roots (parent_id null or 0) and
\* the same parent-to-children relation, and a row whose parent_id names no row
\* of the input is in neither result.
C21_SameForestAsCategoryTree ==
    tpc = "done" =>
      LET tree == GetCategoryTree(CategoryRows) IN
      /\ Range(tree.rootNodes) = Range(rootNodes)
      /\ Range(rootNodes) = {n \in InputIDs : permMap[n].ParentID \in {{}, {0}}}
      /\ DOMAIN tree.Children = DOMAIN Children
      /\ \A n \in DOMAIN Children : Range(tree.Children[n]) = Range(Children[n])
      /\ \A n \in InputIDs :
            IsOrphan(n) =>
              /\ n \notin Range(tree.rootNodes) \cup Range(rootNodes)
              /\ \A m \in DOMAIN Children :
                    n \notin Range(tree.Children[m]) \cup Range(Children[m])

\* Both builders ended on an input with a root, a child of it and an orphan.
C21_Witness ==
    /\ tpc = "done"
    /\ \E r, c, o \in InputIDs :
          /\ r \in Range(rootNodes) /\ r \in Range(GetCategoryTree(CategoryRows).rootNodes)
          /\ c \in Range(Children[r])
          /\ c \in Range(GetCategoryTree(CategoryRows).Children[r])
          /\ IsOrphan(o)

----------------------------------------------------------------------------
(* Properties of UpdateCategory calls served at the same time (SpecReparent) *)

\* The row of c holds a parent_id together with a path computed for it: the
\* own ID alone under NULL, and otherwise a path of the parent (which ends
\* with the parent's ID) followed by the own ID.
PathIsOfParent(c) ==
    LET row == cms_categories[c] IN
    IF row.ParentID = {}
    THEN row.Path = <<c>>
    ELSE /\ Len(row.Path) >= 2
         /\ row.Path[Len(row.Path)] = c
         /\ row.ParentID = {row.Path[Len(row.Path) - 1]}

\* C22: under UpdateCategory calls on one category served at the same time,
\* every state a reader can see holds, in every row, a parent_id with the
\* path computed for that parent_id; a statement that changes a row leaves
\* the parent_id of the call that issued it and the path the trigger computed
\* for that parent_id from the table as it was; and the row named by the last
\* statement holds that statement's parent_id (the last write wins).
C22_ReparentAtomic ==
    /\ [](\A c \in DOMAIN cms_categories : PathIsOfParent(c))
    /\ [][\A c \in DOMAIN cms_categories :
             cms_categories'[c] # cms_categories[c] =>
                /\ stmt'.op = "update" /\ stmt'.id = c /\ ~stmt'.err
                /\ \E s \in Sessions :
                      /\ sessions[s].pc = "read" /\ sessions'[s].pc = "done"
                      /\ sessions[s].categoryID = c
                      /\ cms_categories'[c].ParentID = sessions[s].ParentID
                      /\ cms_categories'[c].Path =
                            update_category_path(c, sessions[s].ParentID).path]_vars
    /\ []((stmt.op = "update" /\ ~stmt.err) =>
             cms_categories[stmt.id].ParentID = stmt.parent)

\* Two calls read the same row of one category, then each wrote another
\* parent_id: the row holds what the second to write asked for.
C22_Witness ==
    /\ \A s \in Sessions : sessions[s].pc = "done" /\ ~sessions[s].err
    /\ \E s, t \in Sessions :
          /\ s # t
          /\ sessions[s].categoryID = sessions[t].categoryID
          /\ sessions[s].category = sessions[t].category
          /\ sessions[s].ParentID # sessions[t].ParentID
          /\ stmt.op = "update" /\ stmt.article = t
          /\ cms_categories[stmt.id].ParentID = sessions[t].ParentID
          /\ cms_categories[stmt.id].ParentID # sessions[s].ParentID
          /\ Len(cms_categories[stmt.id].Path) = 3

----------------------------------------------------------------------------
(* Properties of tokens and role assignment (SpecToken) *)

\* The request in flight passed JWTAuth with the token req.token.
Authenticated ==
    /\ rpc \in {"rbac", "chain", "done"}
    /\ req.hasUser

\* C23: the role set of the RBAC check is the one signed into the token when
\* it was issued.  A token carries the roles the user had in sys_user_roles at
\* the moment LoginUser or RefreshToken issued it; no step, AssignRoles
\* included, changes the claims of a token that is out; a request
\* authenticated with a token is decided on that token's role IDs (allowed
\* exactly when they contain role 1 or hold a matching permission) whatever
\* sys_user_roles says by then; and an expired token authenticates no request.
C23_TokenRolesAtIssue ==
    /\ [][\A t \in DOMAIN tokens' :
             IF t \in DOMAIN tokens
             THEN /\ tokens'[t].UserID = tokens[t].UserID
                  /\ tokens'[t].RoleIDs = tokens[t].RoleIDs
                  /\ tokens[t].expired => tokens'[t].expired
             ELSE tokens'[t].kind = "access" =>
                     tokens'[t].RoleIDs = UserRoleIDs(tokens'[t].UserID)]_vars
    /\ [](Authenticated => req.roleIDs = tokens[req.token].RoleIDs)
    /\ []((Authenticated /\ rpc \in {"chain", "done"} /\ ~res.queryErr) =>
             (res.decision = "allow" <=>
                \/ 1 \in tokens[req.token].RoleIDs
                \/ \E p \in DOMAIN sys_permissions :
                      /\ \E r \in tokens[req.token].RoleIDs :
                            <<r, p>> \in sys_role_permissions
                      /\ sys_permissions[p].IsEnabled
                      /\ sys_permissions[p].PermType = 3
                      /\ matchAPIPath(sys_permissions[p].APIPath, req.path, req.method)))
    /\ [][(rpc = "idle" /\ rpc' # "idle" /\ tokens[req'.token].expired) =>
             (~req'.hasUser /\ res'.aborted /\ res'.status = 401)]_vars

\* The user logged in holding role 2, AssignRoles then took the role away, and
\* the request with the old token was served all the same, while the token
\* issued by RefreshToken after the change carries no role 2.
C23_Witness ==
    /\ rpc = "done"
    /\ handlerRan
    /\ req.hasUser
    /\ 2 \in tokens[req.token].RoleIDs
    /\ 2 \notin UserRoleIDs(tokens[req.token].UserID)
    /\ \E t \in DOMAIN tokens :
          /\ t > req.token
          /\ tokens[t].kind = "access"
          /\ tokens[t].RoleIDs = UserRoleIDs(tokens[t].UserID)

----------------------------------------------------------------------------
(* Properties of AssignPermissions (SpecAssign) *)

\* The permissions role r holds.
RolePermIDs(links, r) == {l[2] : l \in {x \in links : x[1] = r}}

\* C24: AssignPermissions replaces a role's permissions atomically.  A call
\* that returns nil leaves the role with exactly the permissions of permIDs;
\* a call that returns an error, at whatever statement, leaves
\* sys_role_permissions as it was; the rows of the other roles never change;
\* and a missing role, a missing permission and a permission named twice all
\* make the call return an error.
C24_AssignPermissionsAtomic ==
    [][call' # call =>
         /\ call'.op = "AssignPermissions"
         /\ IF call'.err
            THEN sys_role_permissions' = sys_role_permissions
            ELSE /\ RolePermIDs(sys_role_permissions', call'.roleID) = Range(call'.permIDs)
                 /\ \A r \in DOMAIN sys_roles \ {call'.roleID} :
                       RolePermIDs(sys_role_permissions', r) =
                          RolePermIDs(sys_role_permissions, r)
                 /\ {l[1] : l \in sys_role_permissions'} \subseteq DOMAIN sys_roles
         /\ (\/ call'.roleID \notin DOMAIN sys_roles
             \/ \E i \in DOMAIN call'.permIDs : call'.permIDs[i] \notin DOMAIN sys_permissions
             \/ \E i, j \in DOMAIN call'.permIDs :
                   i # j /\ call'.permIDs[i] = call'.permIDs[j])
              => call'.err]_vars

\* A call for an existing role that named the same permission twice failed
\* at the second INSERT, after the DELETE and the first INSERT: the role
\* still holds the other permission it held before.
C24_Witness ==
    /\ call.op = "AssignPermissions"
    /\ call.err
    /\ call.roleID \in DOMAIN sys_roles
    /\ Len(call.permIDs) = 2
    /\ call.permIDs[1] = call.permIDs[2]
    /\ call.permIDs[1] \in DOMAIN sys_permissions
    /\ RolePermIDs(sys_role_permissions, call.roleID) # {}
    /\ call.permIDs[1] \notin RolePermIDs(sys_role_permissions, call.roleID)

----------------------------------------------------------------------------
(* Properties of the CategoryController requests (SpecController) *)

\* The categories reached from c by following parent_id at most k times.
RECURSIVE CategoryAncestors(_, _)
CategoryAncestors(c, k) ==
    IF k = 0 \/ cms_categories[c].ParentID = {} THEN {}
    ELSE LET parent == CHOOSE x \in cms_categories[c].ParentID : TRUE
         IN IF parent \notin DOMAIN cms_categories THEN {}
            ELSE {parent} \cup CategoryAncestors(parent, k - 1)

\* C25: under any interleaving of UpdateCategory requests the parent chain of
\* every category is acyclic: no category is reached from itself along
\* parent_id.
C25_CategoryChainAcyclic ==
    \A c \in DOMAIN cms_categories :
       c \notin CategoryAncestors(c, Len(cms_categories))

\* C26: a category written with parent_id = 0 is a root: the create or update
\* request that carries parent_id 0 for an existing category succeeds, and
\* the row then holds its own ID as path and stands in the root list of
\* GetCategoryTree.
C26_ParentZeroIsRoot ==
    [][(stmt' # stmt /\ stmt'.parent = {0}) =>
          /\ ~stmt'.err
          /\ stmt'.id \in DOMAIN cms_categories'
          /\ cms_categories'[stmt'.id].Path = <<stmt'.id>>
          /\ LET categories == [i \in DOMAIN cms_categories' |->
                                  [CategoryID |-> i,
                                   ParentID |-> cms_categories'[i].ParentID]]
             IN stmt'.id \in Range(GetCategoryTree(categories).rootNodes)]_vars

----------------------------------------------------------------------------
(* Properties of the permission administration calls (Spec) *)

\* C27: after any sequence of CreatePermission and UpdatePermission calls no
\* two permissions of type 3 hold the same non-empty api_path.
C27_ApiPathUnique ==
    \A p, q \in DOMAIN sys_permissions :
       (/\ p # q
        /\ sys_permissions[p].PermType = 3
        /\ sys_permissions[q].PermType = 3
        /\ sys_permissions[p].APIPath # <<>>)
         => sys_permissions[p].APIPath # sys_permissions[q].APIPath

----------------------------------------------------------------------------
(* Properties of built-in permissions (SpecBuiltin) *)

\* C28: a built-in permission is permanent.  Whatever call comes next, a
\* permission that exists with is_builtin = true exists and is built-in
\* afterwards; DeletePermission on it, and UpdatePermission with is_builtin
\* false on it, return an error and leave sys_permissions as it was.
C28_BuiltinPermanent ==
    [][\A p \in DOMAIN sys_permissions :
          (sys_permissions[p].Exists /\ sys_permissions[p].IsBuiltin) =>
             /\ sys_permissions'[p].Exists
             /\ sys_permissions'[p].IsBuiltin
             /\ (/\ call'.permID = p
                 /\ ops' # ops
                 /\ \/ call'.op = "DeletePermission"
                    \/ call'.op = "UpdatePermission" /\ call'.IsBuiltin = {FALSE})
                  => (call'.err /\ sys_permissions' = sys_permissions)]_vars

\* DeletePermission was just refused for a built-in permission that has no
\* child and is assigned to no role.
C28_Witness ==
    /\ call.op = "DeletePermission"
    /\ call.err
    /\ PermissionExists(call.permID)
    /\ sys_permissions[call.permID].IsBuiltin
    /\ \A c \in DOMAIN sys_permissions : sys_permissions[c].ParentID # {call.permID}
    /\ \A l \in sys_role_permissions : l[2] # call.permID

----------------------------------------------------------------------------
(* Properties of comments (SpecComment) *)

\* C29: after any sequence of CreateComment and DeleteComment calls the
\* comment_count of every article is the number of comments that exist for
\* it, replies removed together with a deleted comment included.
C29_CommentCountExact ==
    \A a \in DOMAIN cms_articles :
       cms_articles[a].CommentCount =
          Cardinality({c \in DOMAIN cms_comments :
                         cms_comments[c].Exists /\ cms_comments[c].ArticleID = a})

----------------------------------------------------------------------------
(* Properties of likes (SpecLike) *)

\* C30: under any interleaving of LikeArticle calls the like_count of every
\* article is the number of its like rows, of which a user has at most one
\* per article; two concurrent calls of one user never both take effect as
\* a like.
C30_LikeCountExact ==
    \A a \in DOMAIN cms_articles :
       cms_articles[a].LikeCount = Cardinality({l \in cms_article_likes : l[1] = a})

====
